---- MODULE Spec2Model ----
(***************************************************************************)
(* msys2-web: the background refresh loop (app/fetch/update.py), the       *)
(* published application state (app/appstate.py AppState), the request     *)
(* handlers that read it (app/api.py, app/web.py) and the build-queue      *)
(* computation of app/api.py.                                              *)
(*                                                                         *)
(* Everything runs on one asyncio event loop: a coroutine runs from one    *)
(* await to the next without interruption, so every action below is one    *)
(* such stretch of code.  The configuration modelled is the one run.py -n  *)
(* starts (appconfig.NO_EXTERN = True; appconfig.py itself defines no      *)
(* default for it), CACHE_DIR = None.                                      *)
(***************************************************************************)
EXTENDS Integers, Sequences, FiniteSets, TLC

\* ---------------------------------------------------------------- bounds
\* Number of times the upstream servers change a document, over all URLs.
MaxChanges == 1
\* Number of requests that raise, over all tasks.
MaxFailures == 1

VARIABLES
    loop_pc,        \* update_loop: "limit", "gather", "wait", "sleep"
    update_event,   \* asyncio.Event of _get_update_event(): is it set
    cur,            \* the tasks asyncio.gather of this cycle runs: task -> [st, url]
    orphans,        \* tasks of cycles whose gather raised, still running: position -> count
    upstream,       \* url list -> version of the documents the servers hold
    cache,          \* check_needs_update _cache: url list -> version of the headers kept, 0 = none
    state,          \* AppState
    on_loop,        \* the request handler that holds the event loop, or "none"
    bq,             \* the running buildqueue2 invocation
    client,         \* an HTTP client of the page endpoints
    no_middleware,  \* os.environ NO_MIDDLEWARE
    hist,           \* history of the current refresh cycle (for the properties only)
    clock,        \* _rate_limit and the timers of update_loop and trigger_loop
    queue,          \* one evaluation of the build queue over a snapshot
    loader,         \* one run of the loop of update_sourceinfos over its documents
    vers            \* version strings and the results of comparing them

vars == <<loop_pc, update_event, cur, orphans, upstream, cache, state, on_loop,
          bq, client, no_middleware, hist, clock, queue, loader, vers>>

\* The variables the refresh loop and the request handlers leave alone.
\* The variables only the evaluation of a function over its inputs changes.
pure == <<loader, vers>>

others == <<clock, queue, pure>>

\* ------------------------------------------------------------ the feeds
\* update_loop's awaitables with NO_EXTERN set.
TASKS == {"update_source", "update_sourceinfos", "update_build_status", "update_cdx"}

\* The url lists handed to check_needs_update.
URLS == {"files_url", "SRCINFO_URLS", "PYPI_URLS", "BUILD_STATUS_URLS", "CDX_URLS"}

\* The url list a task checks first.
FirstUrls(t) ==
    CASE t = "update_source" -> "files_url"
      [] t = "update_sourceinfos" -> "SRCINFO_URLS"
      [] t = "update_build_status" -> "BUILD_STATUS_URLS"
      [] t = "update_cdx" -> "CDX_URLS"

\* The task that requests a url list (update_pypi_versions is awaited by
\* update_sourceinfos).
TaskOf(u) ==
    CASE u = "files_url" -> "update_source"
      [] u = "SRCINFO_URLS" -> "update_sourceinfos"
      [] u = "PYPI_URLS" -> "update_sourceinfos"
      [] u = "BUILD_STATUS_URLS" -> "update_build_status"
      [] u = "CDX_URLS" -> "update_cdx"

\* A running task waits for the HEAD requests of check_needs_update ("head")
\* or for the content of the documents ("get").
Positions == [st : {"head", "get"}, url : URLS]

\* A task that is not running: not created yet ("idle"), returned after it
\* published url ("returned"), returned because check_needs_update(url) was
\* False ("skipped"), or ended by an exception while requesting url ("raised").
Idle == [st |-> "idle", url |-> "-"]
Returned(u) == [st |-> "returned", url |-> u]
Skipped(u) == [st |-> "skipped", url |-> u]
Raised(u) == [st |-> "raised", url |-> u]

Running(p) == p.st \in {"head", "get"}

Min(a, b) == IF a < b THEN a ELSE b

\* ------------------------------------------------------------- AppState
\* uuid.uuid4(): a token no earlier call returned.  Every uuid of the
\* program is drawn by _update_etag, so tokens are numbered in the order
\* they are drawn and the one after the current etag is the next.
uuid4(prev) == prev + 1

update_etag(s) == [s EXCEPT !.etag = uuid4(s.etag)]

set_sources(s, v) == update_etag([s EXCEPT !.sources = v])

set_sourceinfos(s, v) == update_etag([s EXCEPT !.sourceinfos = v])

set_pkgextra(s, v) == update_etag([s EXCEPT !.pkgextra = v])

set_ext_infos(s, v) == update_etag([s EXCEPT !.ext_infos = v])

\* A setter that leaves the etag alone.
set_build_status_only(s, v) == [s EXCEPT !.build_status = v]

set_build_status(s, v) == update_etag([s EXCEPT !.build_status = v])

set_vulnerabilities(s, v) == update_etag([s EXCEPT !.vulnerabilities = v])

\* AppState.__init__: _update_etag() is called twice, empty collections.
AppStateInit ==
    [sources |-> 0, sourceinfos |-> 0, pkgextra |-> 0, ext_infos |-> 0,
     build_status |-> 0, vulnerabilities |-> 0, etag |-> uuid4(uuid4(0)),
     ready |-> FALSE]

\* What a task assigns once the documents of url list u have arrived, v
\* being the version of the documents.
Publish(s, u, v) ==
    CASE u = "files_url" -> set_sources(s, v)
      [] u = "SRCINFO_URLS" -> set_sourceinfos(set_pkgextra(s, v), v)
      [] u = "PYPI_URLS" -> set_ext_infos(s, v)
      [] u = "BUILD_STATUS_URLS" -> set_build_status(s, v)
      [] u = "CDX_URLS" -> set_vulnerabilities(s, v)

\* The published data, without the etag and the ready flag.
Data(s) == <<s.sources, s.sourceinfos, s.pkgextra, s.ext_infos, s.build_status,
             s.vulnerabilities>>

\* Where a task goes after it published url list u.
AfterPublish(u) ==
    IF u = "SRCINFO_URLS" THEN [st |-> "head", url |-> "PYPI_URLS"] ELSE Returned(u)

\* The version of the documents of url list u that the state holds.
Held(s, u) ==
    CASE u = "files_url" -> s.sources
      [] u = "SRCINFO_URLS" -> s.sourceinfos
      [] u = "PYPI_URLS" -> s.ext_infos
      [] u = "BUILD_STATUS_URLS" -> s.build_status
      [] u = "CDX_URLS" -> s.vulnerabilities

\* ------------------------------------------------- check_needs_update
\* check_needs_update(urls): the headers the servers answer with differ from
\* the ones kept in _cache.
needs_update(c, up, u) == c[u] # up[u]

\* check_needs_update stores the headers it received, whatever it returns.
cache_store(c, up, u) == [c EXCEPT ![u] = up[u]]

\* ---------------------------------------------------------- the event
\* Event.set()
queue_update(e) == TRUE

\* An event that stays set when it is consumed.
event_stays(e) == e

\* await Event.wait() returns once the event is set; Event.clear()
event_clear(e) == FALSE

\* ------------------------------------------------------ page endpoints
\* The ETag header made of an etag, and the header a client sends back.
etag_header(e) == <<"W/", e>>

NoHeader == <<>>
Nope == <<"nope">>

\* A comparison with the strong form of the tag.
etag_status_strong(s, inm) == IF inm = <<"", s.etag>> THEN 304 ELSE 200

\* Depends(Etag(get_etag)): 304 when If-None-Match is the current ETag.
etag_status(s, inm) == IF inm = etag_header(s.etag) THEN 304 ELSE 200

\* A middleware that passes every request on.
check_is_ready_open(s, nomw) == TRUE

\* check_is_ready: 503 while the state is not ready.
check_is_ready(s, nomw) == nomw \/ s.ready

\* -------------------------------------------------------------- vercmp
\* A string is the sequence of its characters.
Digits == {"0", "1", "2", "3", "4", "5", "6", "7", "8", "9"}

\* The letters, in the order of their code points.
Letters ==
    <<"a", "b", "c", "d", "e", "f", "g", "h", "i", "j", "k", "l", "m", "n",
      "o", "p", "q", "r", "s", "t", "u", "v", "w", "x", "y", "z">>

Alphas == {Letters[i] : i \in 1..Len(Letters)}

\* The characters of str.isdigit() that int() does not take, of which one:
\* U+00B2, the superscript two.
NonDecimals == {"sup2"}

\* The outcome of vercmp when int() raises ValueError: none of its results.
ValueError == 2

\* None
None == "None"

\* A comparison that leaves out the second term.
cmp_greater(a, b) == IF a > b THEN 1 ELSE 0

\* (a > b) - (a < b) of two integers
cmp(a, b) == IF a > b THEN 1 ELSE IF a < b THEN 0 - 1 ELSE 0

\* c.isdigit(), c.isalpha() of a string of characters of one type
get_type(c) ==
    IF Head(c) \in Digits \cup NonDecimals THEN "digit"
    ELSE IF Head(c) \in Alphas THEN "alpha"
    ELSE "other"

\* The position of the first (last) c in v, 0 when there is none.
Find(v, c) ==
    IF \E i \in 1..Len(v) : v[i] = c
    THEN CHOOSE i \in 1..Len(v) : v[i] = c /\ \A j \in 1..(i - 1) : v[j] # c
    ELSE 0

RFind(v, c) ==
    IF \E i \in 1..Len(v) : v[i] = c
    THEN CHOOSE i \in 1..Len(v) : v[i] = c /\ \A j \in (i + 1)..Len(v) : v[j] # c
    ELSE 0

\* split: <<epoch, version, release>>; v.split("~", 1), v.rsplit("-", 1)
split(v) ==
    LET i == Find(v, "~")
        e == IF i > 0 THEN SubSeq(v, 1, i - 1) ELSE <<"0">>
        w == IF i > 0 THEN SubSeq(v, i + 1, Len(v)) ELSE v
        j == RFind(w, "-")
    IN IF j > 0
       THEN <<e, SubSeq(w, 1, j - 1), SubSeq(w, j + 1, Len(w))>>
       ELSE <<e, w, None>>

\* parse: the maximal runs of characters of one type
RECURSIVE parse_from(_, _, _)
parse_from(v, parts, current) ==
    IF v = <<>>
    THEN IF current # <<>> THEN Append(parts, current) ELSE parts
    ELSE IF current = <<>>
         THEN parse_from(Tail(v), parts, <<Head(v)>>)
         ELSE IF get_type(<<Head(v)>>) = get_type(current)
              THEN parse_from(Tail(v), parts, Append(current, Head(v)))
              ELSE parse_from(Tail(v), Append(parts, current), <<Head(v)>>)

parse(v) == parse_from(v, <<>>, <<>>)

\* int(p) of a string of digits
RECURSIVE int(_)
int(p) ==
    IF p = <<>> THEN 0
    ELSE 10 * int(SubSeq(p, 1, Len(p) - 1))
         + (CHOOSE d \in 0..9 : <<"0", "1", "2", "3", "4", "5", "6", "7", "8", "9">>[d + 1] = p[Len(p)])

\* int(p) raises ValueError.
int_raises(p) == \E i \in 1..Len(p) : p[i] \in NonDecimals

\* A comparison of two strings of digits by their lengths.
cmp_len(p1, p2) == cmp(Len(p1), Len(p2))

\* cmp(int(p1), int(p2))
cmp_int(p1, p2) ==
    IF int_raises(p1) \/ int_raises(p2) THEN ValueError
    ELSE cmp(int(p1), int(p2))

\* The code point order of two letters.
ord(c) == CHOOSE i \in 1..Len(Letters) : Letters[i] = c

\* cmp(p1, p2) of two strings of letters
RECURSIVE cmp_str(_, _)
cmp_str(a, b) ==
    IF a = <<>> /\ b = <<>> THEN 0
    ELSE IF a = <<>> THEN 0 - 1
    ELSE IF b = <<>> THEN 1
    ELSE IF ord(Head(a)) # ord(Head(b)) THEN cmp(ord(Head(a)), ord(Head(b)))
    ELSE cmp_str(Tail(a), Tail(b))

\* rpmvercmp over zip_longest(parse(v1), parse(v2)), from part i on
RECURSIVE rpmvercmp_from(_, _, _)
rpmvercmp_from(ps1, ps2, i) ==
    IF i > Len(ps1) /\ i > Len(ps2) THEN 0
    ELSE IF i > Len(ps1)
         THEN IF get_type(ps2[i]) = "alpha" THEN 1 ELSE 0 - 1
    ELSE IF i > Len(ps2)
         THEN IF get_type(ps1[i]) = "alpha" THEN 0 - 1 ELSE 1
    ELSE LET t1 == get_type(ps1[i])
             t2 == get_type(ps2[i])
             ret == IF t1 = "other" THEN cmp(Len(ps1[i]), Len(ps2[i]))
                    ELSE IF t1 = "digit" THEN cmp_int(ps1[i], ps2[i])
                    ELSE cmp_str(ps1[i], ps2[i])
         IN IF t1 # t2
            THEN IF t1 = "digit" THEN 1
                 ELSE IF t2 = "digit" THEN 0 - 1
                 ELSE IF t1 = "other" THEN 1
                 ELSE 0 - 1
            ELSE IF ret # 0 THEN ret
            ELSE rpmvercmp_from(ps1, ps2, i + 1)

rpmvercmp(v1, v2) == rpmvercmp_from(parse(v1), parse(v2), 1)

vercmp(v1, v2) ==
    LET s1 == split(v1)
        s2 == split(v2)
        ret_e == rpmvercmp(s1[1], s2[1])
        ret_v == rpmvercmp(s1[2], s2[2])
    IN IF ret_e # 0 THEN ret_e
       ELSE IF ret_v = 0 /\ s1[3] # None /\ s2[3] # None
            THEN rpmvercmp(s1[3], s2[3])
            ELSE ret_v

\* A comparison that takes an equal version for a newer one.
version_is_not_older_than(v1, v2) == vercmp(v1, v2) >= 0

version_is_newer_than(v1, v2) == vercmp(v1, v2) = 1

\* ------------------------------------------------- packages and sources
\* The names of packages and repositories, in the order of Python's str.
NAMES == <<"bar", "base", "base-devel", "baz", "foo", "mingw64", "msys">>

rank(n) == CHOOSE i \in 1..Len(NAMES) : NAMES[i] = n

Range(q) == {q[i] : i \in 1..Len(q)}

\* sorted(set(values)) of names
RECURSIVE sorted(_)
sorted(S) ==
    IF S = {} THEN <<>>
    ELSE LET m == CHOOSE x \in S : \A y \in S : rank(x) <= rank(y)
         IN <<m>> \o sorted(S \ {m})

\* Package.key: (repo, repo_variant, name, arch, fileurl); tuples compare
\* item by item.
key(p) == <<rank(p.repo), rank(p.name)>>

key_le(k1, k2) == k1[1] < k2[1] \/ (k1[1] = k2[1] /\ k1[2] <= k2[2])

\* sorted(s.packages.items()), the packages only; the keys are distinct
RECURSIVE sorted_packages(_)
sorted_packages(P) ==
    IF P = {} THEN <<>>
    ELSE LET m == CHOOSE x \in P : \A y \in P : key_le(key(x), key(y))
         IN <<m>> \o sorted_packages(P \ {m})

\* The keys of cmp_to_key(vercmp) for the elements of l: the pairs <<a, b>>
\* with K(a) < K(b), that is vercmp(a, b) < 0.
cmp_to_key(l) == {ab \in Range(l) \X Range(l) : vercmp(ab[1], ab[2]) < 0}

\* K(a) < K(b)
lt(K, a, b) == <<a, b>> \in K

reverse(l) == [i \in 1..Len(l) |-> l[Len(l) + 1 - i]]

\* count_run of list.sort: the length of the run l starts with, n of it
\* known, descending (each element less than the one before) or not.
RECURSIVE run_from(_, _, _, _)
run_from(K, l, n, descending) ==
    IF n < Len(l) /\ lt(K, l[n + 1], l[n]) = descending
    THEN run_from(K, l, n + 1, descending)
    ELSE n

\* binarysort of list.sort: where the pivot goes among the elements lo + 1
\* to hi of l, which are sorted.
RECURSIVE bisect(_, _, _, _, _)
bisect(K, l, pivot, lo, hi) ==
    IF lo >= hi THEN lo
    ELSE LET p == lo + (hi - lo) \div 2
         IN IF lt(K, pivot, l[p + 1]) THEN bisect(K, l, pivot, lo, p)
            ELSE bisect(K, l, pivot, p + 1, hi)

\* binarysort of list.sort: the first start elements of l are sorted, the
\* others are inserted one after the other.
RECURSIVE binarysort(_, _, _)
binarysort(K, l, start) ==
    IF start >= Len(l) THEN l
    ELSE LET pivot == l[start + 1]
             at == bisect(K, l, pivot, 0, start)
         IN binarysort(K,
                       SubSeq(l, 1, at) \o <<pivot>> \o SubSeq(l, at + 1, start)
                           \o SubSeq(l, start + 2, Len(l)),
                       start + 1)

\* list.sort of a list of less than 64 elements: the run the list starts
\* with, reversed when it descends, then the insertion of the others.
list_sort(K, l) ==
    IF Len(l) < 2 THEN l
    ELSE LET descending == lt(K, l[2], l[1])
             n == run_from(K, l, 2, descending)
             run == IF descending THEN reverse(SubSeq(l, 1, n)) ELSE SubSeq(l, 1, n)
         IN binarysort(K, run \o SubSeq(l, n + 1, Len(l)), n)

\* sorted(l, key=cmp_to_key(vercmp), reverse=True): the list is reversed,
\* sorted and reversed again.
sorted_reverse(l) == reverse(list_sort(cmp_to_key(l), reverse(l)))

\* The orders in which a set may be iterated.
list_of(versions) ==
    {l \in [1..Cardinality(versions) -> versions] : Range(l) = versions}

\* Source.version: sorted(versions, key=cmp_to_key(vercmp), reverse=True)[0]
\* of the set of the versions of the packages, for every order in which the
\* set may be iterated.
Source_versions(src) ==
    {sorted_reverse(l)[1] : l \in list_of({p.version : p \in Range(src.packages)})}

\* Source.version of a source whose versions sort in one way.
Source_version(src) == CHOOSE v \in Source_versions(src) : TRUE

\* SrcInfoPackage.build_version
build_version(si) ==
    LET version == si.pkgver \o <<"-">> \o si.pkgrel
    IN IF si.epoch # <<>> THEN si.epoch \o <<"~">> \o version ELSE version

\* for s in state.sources.values(): for p in s.packages.values(): the
\* packages of every source one after the other, each dict as it is or
\* sorted by key.
RECURSIVE all_packages_from(_, _, _)
all_packages_from(sources, i, by_key) ==
    IF i > Len(sources) THEN <<>>
    ELSE (IF by_key THEN sorted_packages(Range(sources[i].packages))
          ELSE sources[i].packages)
         \o all_packages_from(sources, i + 1, by_key)

\* name in state.sourceinfos, state.sourceinfos[name]
in_sourceinfos(s, name) ==
    \E i \in 1..Len(s.sourceinfos) : s.sourceinfos[i].pkgname = name

sourceinfo(s, name) ==
    s.sourceinfos[CHOOSE i \in 1..Len(s.sourceinfos) : s.sourceinfos[i].pkgname = name]

\* name in state.sources, state.sources[name]
in_sources(s, name) == \E i \in 1..Len(s.sources) : s.sources[i].name = name

source(s, name) ==
    s.sources[CHOOSE i \in 1..Len(s.sources) : s.sources[i].name = name]

\* ------------------------------------------------ get_srcinfos_to_build
\* packages that should be updated, in the order of the sources and the
\* sorted keys of their packages
RECURSIVE to_update_from(_, _)
to_update_from(s, packages) ==
    IF packages = <<>> THEN <<>>
    ELSE LET p == Head(packages)
         IN (IF /\ in_sourceinfos(s, p.name)
                /\ version_is_newer_than(build_version(sourceinfo(s, p.name)),
                                         p.version)
             THEN <<sourceinfo(s, p.name)>>
             ELSE <<>>)
            \o to_update_from(s, Tail(packages))

to_update(s) == to_update_from(s, all_packages_from(s.sources, 1, TRUE))

\* The names of the packages in the repositories.
repo_names(s) ==
    {p.name : p \in Range(all_packages_from(s.sources, 1, FALSE))}

\* not_in_repo.values(), each a list of one srcinfo, one after the other
not_in_repo(s) ==
    LET absent(si) == si.pkgname \notin repo_names(s)
    IN SelectSeq(s.sourceinfos, absent)

replaces_not_in_repo(s) ==
    UNION {si.replaces : si \in Range(s.sourceinfos)} \ repo_names(s)

\* A marking that does not look at what the packages replace.
marked_new_by_name(s) == {si.pkgname : si \in Range(not_in_repo(s))}

marked_new(s) ==
    {si.pkgname : si \in {x \in Range(not_in_repo(s)) :
                              x.replaces \subseteq replaces_not_in_repo(s)}}

get_srcinfos_to_build(s) == <<to_update(s) \o not_in_repo(s), marked_new(s)>>

\* ---------------------------------------------- buildqueue2: helpers
\* srcinfo_provides[name], srcinfo_replaces[name]: the pkgname of the last
\* srcinfo that provides (replaces) the name, None without one.
srcinfo_provides(s, name) ==
    LET I == {i \in 1..Len(s.sourceinfos) : name \in s.sourceinfos[i].provides}
    IN IF I = {} THEN None
       ELSE s.sourceinfos[CHOOSE i \in I : \A j \in I : j <= i].pkgname

srcinfo_replaces(s, name) ==
    LET I == {i \in 1..Len(s.sourceinfos) : name \in s.sourceinfos[i].replaces}
    IN IF I = {} THEN None
       ELSE s.sourceinfos[CHOOSE i \in I : \A j \in I : j <= i].pkgname

\* A lookup that takes the name that has a SrcInfoPackage for the package,
\* whatever provides and replaces it.
resolve_real(s, pkgname) ==
    IF in_sourceinfos(s, pkgname) THEN pkgname
    ELSE IF srcinfo_provides(s, pkgname) # None THEN srcinfo_provides(s, pkgname)
    ELSE pkgname

resolve_package(s, pkgname) ==
    IF /\ srcinfo_replaces(s, pkgname) # None
       /\ srcinfo_provides(s, pkgname) # None
       /\ srcinfo_provides(s, pkgname) = srcinfo_replaces(s, pkgname)
    THEN srcinfo_provides(s, pkgname)
    ELSE IF in_sourceinfos(s, pkgname) THEN pkgname
    ELSE IF srcinfo_provides(s, pkgname) # None THEN srcinfo_provides(s, pkgname)
    ELSE pkgname

\* A worklist that takes no name for done.
never_done(name, done) == FALSE

\* get_transitive_depends_and_resolve: if name in done: continue
already_done(name, done) == name \in done

\* A worklist that does not follow the depends of the names it takes.
todo_same(s, name, todo) == todo

\* get_transitive_depends_and_resolve: if name in state.sourceinfos:
\* todo.update(si.depends.keys())
todo_update(s, name, todo) ==
    IF in_sourceinfos(s, name) THEN todo \cup sourceinfo(s, name).depends
    ELSE todo

\* A todo that starts with the depends of the packages only.
depends_todo(s, packages) ==
    UNION {sourceinfo(s, name).depends : name \in packages}

\* get_transitive_makedepends: the todo its packages start with
makedepends_todo(s, packages) ==
    UNION {sourceinfo(s, name).depends \cup sourceinfo(s, name).makedepends :
               name \in packages}

srcinfo_get_repo_version(s, si) ==
    IF in_sources(s, si.pkgbase) THEN Source_version(source(s, si.pkgbase))
    ELSE None

srcinfo_has_src(s, si) ==
    LET version == srcinfo_get_repo_version(s, si)
    IN version # None /\ version = build_version(si)

build_key(srcinfo) == <<srcinfo.repo_url, srcinfo.repo_path>>

\* to_build.values(): the srcinfos of each build key, the keys in the order
\* of their first srcinfo
RECURSIVE to_build_from(_, _)
to_build_from(srcinfos, groups) ==
    IF srcinfos = <<>> THEN groups
    ELSE LET si == Head(srcinfos)
             K == {k \in 1..Len(groups) : build_key(groups[k][1]) = build_key(si)}
         IN to_build_from(Tail(srcinfos),
                IF K = {} THEN Append(groups, <<si>>)
                ELSE [groups EXCEPT ![CHOOSE k \in K : TRUE] = Append(@, si)])

\* A grouping that gives every srcinfo a group of its own.
to_build_apart(srcinfos) == [i \in 1..Len(srcinfos) |-> <<srcinfos[i]>>]

to_build(srcinfos) == to_build_from(srcinfos, <<>>)

\* version_repo = version_repo or srcinfo_get_repo_version(si), si by si
RECURSIVE version_repo_from(_, _, _)
version_repo_from(s, srcinfos, version_repo) ==
    IF srcinfos = <<>> THEN version_repo
    ELSE version_repo_from(s, Tail(srcinfos),
             IF version_repo = None THEN srcinfo_get_repo_version(s, Head(srcinfos))
             ELSE IF version_repo = <<>>
                  THEN srcinfo_get_repo_version(s, Head(srcinfos))
                  ELSE version_repo)

\* The dict appended to entries for the srcinfos of one build key.
new_entry(s, srcinfos, new_names, makedepends) ==
    [repo_url |-> srcinfos[1].repo_url,
     repo_path |-> srcinfos[1].repo_path,
     version |-> build_version(srcinfos[1]),
     version_repo |-> version_repo_from(s, srcinfos, None),
     name |-> srcinfos[1].pkgbase,
     source |-> \E si \in Range(srcinfos) : ~srcinfo_has_src(s, si),
     packages |-> {si.pkgname : si \in Range(srcinfos)},
     new |-> {r \in {si.repo : si \in Range(srcinfos)} :
                 \A si \in Range(srcinfos) : si.repo = r => si.pkgname \in new_names},
     makedepends |-> makedepends]

\* A limit to the packages of the queue that leaves the entry's own in.
restrict_to_queue(entries) ==
    LET all_packages == UNION {e.packages : e \in Range(entries)}
    IN [i \in 1..Len(entries) |->
           [entries[i] EXCEPT !.makedepends = @ \cap all_packages]]

\* A limit that takes the entry's own packages out and leaves the rest.
restrict_own(entries) ==
    [i \in 1..Len(entries) |->
        [entries[i] EXCEPT !.makedepends = @ \ entries[i].packages]]

\* limit the deps to all packages in the queue overall, minus itself
restrict(entries) ==
    LET all_packages == UNION {e.packages : e \in Range(entries)}
    IN [i \in 1..Len(entries) |->
           [entries[i] EXCEPT !.makedepends = (@ \cap all_packages) \ entries[i].packages]]

\* name in repo_mapping: repo_mapping[name] raises KeyError without it
in_repo_mapping(srcinfos, name) ==
    \E i \in 1..Len(srcinfos) : srcinfos[i].pkgname = name

\* repo_mapping[name]: the repo of the last srcinfo of that pkgname
repo_mapping(srcinfos, name) ==
    LET I == {i \in 1..Len(srcinfos) : srcinfos[i].pkgname = name}
    IN srcinfos[CHOOSE i \in I : \A j \in I : j <= i].repo

\* A grouping that lists every name under every repo.
group_under_all(srcinfos, names) ==
    [r \in {repo_mapping(srcinfos, n) : n \in names} |-> sorted(names)]

\* group_by_repo: grouped[repo_mapping[name]] for every name, each list
\* sorted(set(values))
group_by_repo(srcinfos, names) ==
    [r \in {repo_mapping(srcinfos, n) : n \in names} |->
        sorted({n \in names : repo_mapping(srcinfos, n) = r})]

\* A QueueEntry whose builds keep the depends of every repo.
queue_entry_every_repo(srcinfos, e) ==
    LET deps_grouped == group_by_repo(srcinfos, e.makedepends)
        packages_grouped == group_by_repo(srcinfos, e.packages)
    IN [name |-> e.name,
        version |-> e.version,
        version_repo |-> e.version_repo,
        repo_url |-> e.repo_url,
        repo_path |-> e.repo_path,
        source |-> e.source,
        builds |-> [repo \in DOMAIN packages_grouped |->
                      [packages |-> packages_grouped[repo],
                       depends |-> deps_grouped,
                       new |-> repo \in e.new]]]

\* QueueEntry, builds: one QueueBuild for every repo of the packages
queue_entry(srcinfos, e) ==
    LET deps_grouped == group_by_repo(srcinfos, e.makedepends)
        packages_grouped == group_by_repo(srcinfos, e.packages)
    IN [name |-> e.name,
        version |-> e.version,
        version_repo |-> e.version_repo,
        repo_url |-> e.repo_url,
        repo_path |-> e.repo_path,
        source |-> e.source,
        builds |-> [repo \in DOMAIN packages_grouped |->
                      [packages |-> packages_grouped[repo],
                       depends |-> [deprepo \in {d \in DOMAIN deps_grouped :
                                                    d = repo \/ d = "msys"} |->
                                       deps_grouped[deprepo]],
                       new |-> repo \in e.new]]]

\* ------------------------------------------------------------- timing
UPDATE_INTERVAL == 60 * 5
UPDATE_MIN_INTERVAL == 60
UPDATE_MIN_RATE == 1

\* await asyncio.sleep(5)
SLEEP == 5

Max(a, b) == IF a > b THEN a ELSE b

\* A limiter that never has capacity.
has_capacity_never(c) == FALSE

\* A limiter that always has capacity.
has_capacity_always(c) == TRUE

\* AsyncLimiter.has_capacity(1): the level plus one acquisition is at most
\* max_rate.
has_capacity(c) ==
    IF c.on
    THEN c.level + UPDATE_MIN_INTERVAL <= UPDATE_MIN_RATE * UPDATE_MIN_INTERVAL
    ELSE TRUE

\* AsyncLimiter.acquire() once there is capacity: the level rises by one.
acquire(c) ==
    IF c.on
    THEN [c EXCEPT !.level = @ + UPDATE_MIN_INTERVAL, !.starts = Append(@, 0)]
    ELSE c

\* AsyncLimiter._leak(): the level falls by max_rate / time_period a second.
leak(level, d) == Max(level - d * UPDATE_MIN_RATE, 0)

\* asyncio.sleep(d) starts.
sleep_start(c, field, d) ==
    IF c.on THEN [c EXCEPT ![field] = d] ELSE c

\* asyncio.sleep() is over.
sleep_over(c, field) == IF c.on THEN c[field] = 0 ELSE TRUE

\* The ages d later, those of UPDATE_MIN_INTERVAL and more dropped.
RECURSIVE Aged(_, _)
Aged(ages, d) ==
    IF ages = <<>> THEN <<>>
    ELSE IF Head(ages) + d < UPDATE_MIN_INTERVAL
         THEN <<Head(ages) + d>> \o Aged(Tail(ages), d)
         ELSE Aged(Tail(ages), d)

\* ---------------------------------------------------------------- Init
\* The values of clock and queue in the specifications that do not use them.
ClockOff == [on |-> FALSE]

\* Time in seconds.  level: the level of the bucket of _rate_limit, in
\* UPDATE_MIN_INTERVAL-ths of an acquisition; sleep: what is left of
\* asyncio.sleep(5); timer: what is left of asyncio.sleep(UPDATE_INTERVAL);
\* starts: the ages of the cycle starts younger than UPDATE_MIN_INTERVAL.
\* trigger_loop starts sleeping when update_loop starts.
ClockInit ==
    [on |-> TRUE, level |-> 0, sleep |-> 0, timer |-> UPDATE_INTERVAL,
     starts |-> <<>>]
QueueOff == [on |-> FALSE]
LoaderOff == [on |-> FALSE]
VersOff == [on |-> FALSE]

\* The locals of buildqueue2.  groups: to_build.values(); i: the build key
\* the loop is at; phase: which of the two closures of its makedepends is
\* computed; todo, done: those of get_transitive_depends_and_resolve; rounds:
\* the rounds of its while loop so far; first: the result of the first
\* closure.
QueueInit ==
    [on |-> TRUE, pc |-> "idle", srcinfos |-> <<>>, marked_new |-> {},
     groups |-> <<>>, i |-> 0, phase |-> "-", todo |-> {}, done |-> {},
     rounds |-> 0, first |-> {}, entries |-> <<>>, results |-> <<>>]

\* ------------------------------------------------------------ snapshots
MaxDeps == 1    \* depends and makedepends of a SrcInfoPackage, together

\* The build recipes, in the order of state.sourceinfos.
UNITS == <<"foo", "bar", "baz">>

REPO(n) == IF n = "baz" THEN "mingw64" ELSE "msys"

REPO_URL(n) == IF n = "baz" THEN "MINGW-packages" ELSE "MSYS2-packages"

\* <<depends, makedepends>> of the SrcInfoPackage n
DepChoices(n) ==
    {c \in (SUBSET (Range(UNITS) \ {n})) \X (SUBSET (Range(UNITS) \ {n})) :
        Cardinality(c[1]) + Cardinality(c[2]) <= MaxDeps}

\* One choice for every recipe.
DepsOf(foo, bar, baz) ==
    [n \in Range(UNITS) |->
        IF n = "foo" THEN foo ELSE IF n = "bar" THEN bar ELSE baz]

\* Of each name: no recipe and no package; a recipe and no package in the
\* repositories; a recipe and a package of an older version, of the version
\* of the recipe, of a newer version; a package and no recipe ("binary").
PlainStatus == {"absent", "older", "same"}

StatusChoices ==
    [Range(UNITS) -> {"unknown", "newer"} \cup PlainStatus]

\* What else the recipe of baz says: nothing; it provides bar; it replaces
\* bar; it does both; baz is a second package of the recipe of bar; the
\* package baz of the repositories is in another repository than the one
\* the recipe builds for; baz is the package the recipe of bar builds for
\* another repository.
Shapes ==
    {"plain", "provides", "replaces", "both", "split", "moved", "variants"}

NoDeps == <<{}, {}>>

Str_1_0_1 == <<"1", ".", "0", "-", "1">>
Str_1_1_1 == <<"1", ".", "1", "-", "1">>
Str_1_2_1 == <<"1", ".", "2", "-", "1">>

\* The recipe that builds the package n.
BASE(n, shape) ==
    IF n = "baz" /\ shape \in {"split", "variants"} THEN "bar" ELSE n

\* The repository the package n is built for.
TARGET(n, shape) ==
    IF n = "baz" /\ shape = "variants" THEN REPO(n) ELSE REPO(BASE(n, shape))

SrcInfoPackage(n, c, shape) ==
    [pkgname |-> n, pkgbase |-> BASE(n, shape),
     pkgver |-> <<"1", ".", "1">>, pkgrel |-> <<"1">>, epoch |-> <<>>,
     repo |-> TARGET(n, shape), repo_url |-> REPO_URL(BASE(n, shape)),
     repo_path |-> BASE(n, shape),
     depends |-> c[1], makedepends |-> c[2],
     provides |-> IF n = "baz" /\ shape \in {"provides", "both"} THEN {"bar"} ELSE {},
     replaces |-> IF n = "baz" /\ shape \in {"replaces", "both"} THEN {"bar"} ELSE {}]

Package(n, c, st, shape) ==
    [name |-> n, base |-> BASE(n, shape), depends |-> c[1],
     repo |-> IF n = "baz" /\ shape = "moved" THEN "msys" ELSE TARGET(n, shape),
     version |-> IF st = "older" THEN Str_1_0_1
                 ELSE IF st = "newer" THEN Str_1_2_1 ELSE Str_1_1_1]

\* The bases of the packages, each once, in the order of the packages.
RECURSIVE bases(_, _)
bases(packages, seen) ==
    IF packages = <<>> THEN <<>>
    ELSE IF Head(packages).base \in seen THEN bases(Tail(packages), seen)
    ELSE <<Head(packages).base>>
         \o bases(Tail(packages), seen \cup {Head(packages).base})

\* parse_repo, update_source: the sources of the repositories one repository
\* after the other, those of a repository in the order of their names; a
\* source holds the packages of its base.
Sources(packages) ==
    LET names == bases(packages, {})
        of(b) == LET same(p) == p.base = b IN SelectSeq(packages, same)
    IN [i \in 1..Len(names) |-> [name |-> names[i], packages |-> of(names[i])]]

Snapshot(deps, status, shape) ==
    LET in_repo == {Package(n, deps[n], status[n], shape) :
                       n \in {m \in Range(UNITS) : status[m] \notin {"unknown", "absent"}}}
        sources == Sources(sorted_packages(in_repo))
        known(n) == status[n] \notin {"unknown", "binary"}
        recipes == SelectSeq(UNITS, known)
        sourceinfos == [i \in 1..Len(recipes) |->
                           SrcInfoPackage(recipes[i], deps[recipes[i]], shape)]
    IN [set_sourceinfos(set_sources(AppStateInit, sources), sourceinfos)
            EXCEPT !.ready = TRUE]

\* etag: the ETag of the last 200 response; stale: a setter of AppState was
\* called since; status: the status of the last response; inm_fresh: the
\* last request carried that ETag and no setter had been called since it
\* was issued; inm_current: the last request carried the ETag of the state;
\* through: check_is_ready passed the last request on.
ClientInit ==
    [etag |-> NoHeader, stale |-> FALSE, status |-> 0, through |-> FALSE,
     inm_current |-> FALSE, inm_fresh |-> FALSE]

BqInit == [pc |-> "idle", sources |-> 0, sourceinfos |-> 0, same |-> TRUE]

\* changed: a setter was called since the last cycle started and its gather
\* has not returned; raised: the gather of the last cycle raised; burst:
\* queue_update() calls since the event was last consumed (0, 1, 2 = two or
\* more); consumed: the burst the last wait_for_update() consumed; failures:
\* requests that raised.
HistInit == [changed |-> FALSE, raised |-> FALSE, burst |-> 0, consumed |-> 0,
             failures |-> 0]

StartWith(st, nomw, c, q, l, v) ==
    /\ loop_pc = "limit"
    /\ update_event = FALSE
    /\ cur = [t \in TASKS |-> Idle]
    /\ orphans = [p \in Positions |-> 0]
    /\ upstream = [u \in URLS |-> 1]
    /\ cache = [u \in URLS |-> 0]
    /\ state = st
    /\ on_loop = "none"
    /\ bq = BqInit
    /\ client = ClientInit
    /\ no_middleware = nomw
    /\ hist = HistInit
    /\ clock = c
    /\ queue = q
    /\ loader = l
    /\ vers = v

Start(st, nomw, c, q) == StartWith(st, nomw, c, q, LoaderOff, VersOff)

\* The program after start-up, with or without NO_MIDDLEWARE.
Init == \E nomw \in BOOLEAN : Start(AppStateInit, nomw, ClockOff, QueueOff)

\* The same with the readiness middleware installed (NO_MIDDLEWARE unset).
InitFail == Start(AppStateInit, FALSE, ClockOff, QueueOff)

\* The same with the time that passes.
InitRate == Start(AppStateInit, FALSE, ClockInit, QueueOff)

\* The program of the tests (NO_MIDDLEWARE set), its state a snapshot.
\* Either every recipe has its dependencies and nothing else, or the recipe
\* of foo has its dependencies and the snapshot is of any shape, or bar is a
\* package without a recipe, with the depends the repository declares.
InitQueue ==
    \/ \E foo \in DepChoices("foo"), bar \in DepChoices("bar"),
          baz \in DepChoices("baz"), status \in [Range(UNITS) -> PlainStatus] :
           Start(Snapshot(DepsOf(foo, bar, baz), status, "plain"), TRUE, ClockOff,
                 QueueInit)
    \/ \E foo \in DepChoices("foo"), status \in StatusChoices, shape \in Shapes :
           Start(Snapshot(DepsOf(foo, NoDeps, NoDeps), status, shape), TRUE,
                 ClockOff, QueueInit)
    \/ \E foo \in DepChoices("foo"), bar \in DepChoices("bar"),
          status \in [Range(UNITS) -> PlainStatus \cup {"binary"}] :
           /\ status["bar"] = "binary"
           /\ status["foo"] # "binary" /\ status["baz"] # "binary"
           /\ Start(Snapshot(DepsOf(foo, bar, NoDeps), status, "plain"), TRUE,
                    ClockOff, QueueInit)

\* ------------------------------------------------------- update_loop
\* while True: async with _rate_limit: the awaitables are created and
\* asyncio.gather starts them; each runs up to its first request.
start_cycle ==
    /\ on_loop = "none"
    /\ loop_pc = "limit"
    /\ has_capacity(clock)
    /\ clock' = acquire(clock)
    /\ loop_pc' = "gather"
    /\ cur' = [t \in TASKS |-> [st |-> "head", url |-> FirstUrls(t)]]
    /\ hist' = [hist EXCEPT !.changed = FALSE, !.raised = FALSE]
    /\ UNCHANGED <<update_event, orphans, upstream, cache, state, on_loop, bq,
                   client, no_middleware, queue, pure>>

\* await asyncio.gather(...) returns: every task returned.  state.ready = True
gather_return ==
    /\ on_loop = "none"
    /\ loop_pc = "gather"
    /\ \A t \in TASKS : cur[t].st \in {"returned", "skipped"}
    /\ state' = [state EXCEPT !.ready = TRUE]
    /\ cur' = [t \in TASKS |-> Idle]
    /\ loop_pc' = "wait"
    /\ hist' = [hist EXCEPT !.changed = FALSE]
    /\ UNCHANGED <<update_event, orphans, upstream, cache, on_loop, bq, client,
                   no_middleware, others>>

\* await asyncio.gather(...) raises the first exception of a task; the
\* other tasks are not cancelled and keep running.  except Exception: the
\* traceback is printed.
gather_raise ==
    /\ on_loop = "none"
    /\ loop_pc = "gather"
    /\ \E t \in TASKS : cur[t].st = "raised"
    /\ orphans' = [p \in Positions |->
                     orphans[p] + (IF \E t \in TASKS : cur[t] = p THEN 1 ELSE 0)]
    /\ cur' = [t \in TASKS |-> Idle]
    /\ loop_pc' = "wait"
    /\ hist' = [hist EXCEPT !.raised = TRUE]
    /\ UNCHANGED <<update_event, upstream, cache, state, on_loop, bq, client,
                   no_middleware, others>>

\* await wait_for_update(): the event is set; it is cleared.
\* asyncio.sleep(5) starts.
wait_for_update ==
    /\ on_loop = "none"
    /\ loop_pc = "wait"
    /\ update_event
    /\ update_event' = event_clear(update_event)
    /\ loop_pc' = "sleep"
    /\ clock' = sleep_start(clock, "sleep", SLEEP)
    /\ hist' = [hist EXCEPT !.burst = 0, !.consumed = hist.burst]
    /\ UNCHANGED <<cur, orphans, upstream, cache, state, on_loop, bq, client,
                   no_middleware, queue, pure>>

\* await asyncio.sleep(5) is over.
sleep_done ==
    /\ on_loop = "none"
    /\ loop_pc = "sleep"
    /\ sleep_over(clock, "sleep")
    /\ loop_pc' = "limit"
    /\ UNCHANGED <<update_event, cur, orphans, upstream, cache, state, on_loop,
                   bq, client, no_middleware, hist, others>>

\* trigger_loop: asyncio.sleep(UPDATE_INTERVAL) is over; queue_update()
trigger_loop ==
    /\ on_loop = "none"
    /\ sleep_over(clock, "timer")
    /\ update_event' = queue_update(update_event)
    /\ clock' = sleep_start(clock, "timer", UPDATE_INTERVAL)
    /\ hist' = [hist EXCEPT !.burst = Min(hist.burst + 1, 2)]
    /\ UNCHANGED <<loop_pc, cur, orphans, upstream, cache, state, on_loop, bq,
                   client, no_middleware, queue, pure>>

\* POST /api/trigger_update, let through by check_is_ready: queue_update()
do_trigger_update ==
    /\ on_loop = "none"
    /\ check_is_ready(state, no_middleware)
    /\ update_event' = queue_update(update_event)
    /\ hist' = [hist EXCEPT !.burst = Min(hist.burst + 1, 2)]
    /\ UNCHANGED <<loop_pc, cur, orphans, upstream, cache, state, on_loop, bq,
                   client, no_middleware, others>>

\* ------------------------------------------------------ the fetch tasks
\* A setter of AppState was called: whatever ETag a client holds is older.
Outdated(c) == [c EXCEPT !.stale = TRUE]

\* check_needs_update(urls) of task t returns; the task goes on to request
\* the documents, or returns.
head_done(t) ==
    /\ on_loop = "none"
    /\ cur[t].st = "head"
    /\ LET u == cur[t].url IN
         /\ cache' = cache_store(cache, upstream, u)
         /\ cur' = [cur EXCEPT ![t] = IF needs_update(cache, upstream, u)
                                        THEN [st |-> "get", url |-> u]
                                        ELSE Skipped(u)]
    /\ UNCHANGED <<loop_pc, update_event, orphans, upstream, state, on_loop, bq,
                   client, no_middleware, hist, others>>

\* The documents task t asked for have arrived: it parses and publishes them.
get_done(t) ==
    /\ on_loop = "none"
    /\ cur[t].st = "get"
    /\ LET u == cur[t].url IN
         /\ state' = Publish(state, u, upstream[u])
         /\ cur' = [cur EXCEPT ![t] = AfterPublish(u)]
         /\ hist' = [hist EXCEPT !.changed = TRUE]
    /\ client' = Outdated(client)
    /\ UNCHANGED <<loop_pc, update_event, orphans, upstream, cache, on_loop, bq,
                   no_middleware, others>>

\* A request of task t raises (httpx error, raise_for_status, a parse error).
task_raise(t) ==
    /\ on_loop = "none"
    /\ Running(cur[t])
    /\ hist.failures < MaxFailures
    /\ cur' = [cur EXCEPT ![t] = Raised(cur[t].url)]
    /\ hist' = [hist EXCEPT !.failures = @ + 1]
    /\ UNCHANGED <<loop_pc, update_event, orphans, upstream, cache, state,
                   on_loop, bq, client, no_middleware, others>>

\* The same three steps for a task of a cycle whose gather has raised.
Moved(o, p, q) ==
    [r \in Positions |-> o[r] - (IF r = p THEN 1 ELSE 0)
                              + (IF Running(q) /\ r = q THEN 1 ELSE 0)]

orphan_head_done(p) ==
    /\ on_loop = "none"
    /\ p.st = "head"
    /\ orphans[p] > 0
    /\ LET q == IF needs_update(cache, upstream, p.url)
                THEN [st |-> "get", url |-> p.url] ELSE Skipped(p.url) IN
         orphans' = Moved(orphans, p, q)
    /\ cache' = cache_store(cache, upstream, p.url)
    /\ UNCHANGED <<loop_pc, update_event, cur, upstream, state, on_loop, bq,
                   client, no_middleware, hist, others>>

orphan_get_done(p) ==
    /\ on_loop = "none"
    /\ p.st = "get"
    /\ orphans[p] > 0
    /\ orphans' = Moved(orphans, p, AfterPublish(p.url))
    /\ state' = Publish(state, p.url, upstream[p.url])
    /\ client' = Outdated(client)
    /\ hist' = [hist EXCEPT !.changed = TRUE]
    /\ UNCHANGED <<loop_pc, update_event, cur, upstream, cache, on_loop, bq,
                   no_middleware, others>>

\* The request of a task that gather no longer awaits raises: the task ends,
\* nothing retrieves its exception.
orphan_raise(p) ==
    /\ on_loop = "none"
    /\ orphans[p] > 0
    /\ orphans' = Moved(orphans, p, Raised(p.url))
    /\ UNCHANGED <<loop_pc, update_event, cur, upstream, cache, state, on_loop,
                   bq, client, no_middleware, hist, others>>

\* ------------------------------------------------------- the servers
Changes == LET RECURSIVE Sum(_)
               Sum(S) == IF S = {} THEN 0
                         ELSE LET u == CHOOSE x \in S : TRUE
                              IN (upstream[u] - 1) + Sum(S \ {u})
           IN Sum(URLS)

\* A server replaces the documents of url list u (new content, new headers).
upstream_change(u) ==
    /\ Changes < MaxChanges
    /\ upstream' = [upstream EXCEPT ![u] = @ + 1]
    /\ UNCHANGED <<loop_pc, update_event, cur, orphans, cache, state, on_loop,
                   bq, client, no_middleware, hist, others>>

\* ------------------------------------------------------- buildqueue2
\* A handler that gives the event loop away while it runs.
handler_yields(h) == "none"

\* An async def handler without an await: it keeps the event loop until it
\* returns.
handler_holds(h) == h

\* GET /api/buildqueue2, let through by check_is_ready:
\* get_srcinfos_to_build() reads state.sources and state.sourceinfos.
bq_enter ==
    /\ on_loop = "none"
    /\ check_is_ready(state, no_middleware)
    /\ bq.pc = "idle"
    /\ on_loop' = handler_holds("buildqueue2")
    /\ bq' = [pc |-> "candidates", sources |-> state.sources,
              sourceinfos |-> state.sourceinfos, same |-> TRUE]
    /\ UNCHANGED <<loop_pc, update_event, cur, orphans, upstream, cache, state,
                   client, no_middleware, hist, others>>

\* The rest of buildqueue2 reads state.sourceinfos and state.sources again
\* (resolve_package, get_transitive_makedepends, srcinfo_get_repo_version).
bq_entries ==
    /\ bq.pc = "candidates"
    /\ bq' = [bq EXCEPT !.pc = "entries",
                        !.same = (state.sources = bq.sources
                                  /\ state.sourceinfos = bq.sourceinfos)]
    /\ UNCHANGED <<loop_pc, update_event, cur, orphans, upstream, cache, state,
                   on_loop, client, no_middleware, hist, others>>

\* return results
bq_return ==
    /\ bq.pc = "entries"
    /\ bq' = BqInit
    /\ on_loop' = "none"
    /\ UNCHANGED <<loop_pc, update_event, cur, orphans, upstream, cache, state,
                   client, no_middleware, hist, others>>

\* ------------------------------------------ buildqueue2, step by step
\* GET /api/buildqueue2: get_srcinfos_to_build(), to_build, and the loop over
\* to_build.values() up to the first closure of the first build key.
\* si = state.sourceinfos[name] raises KeyError for a name the index lacks.
first_closure(q, i) ==
    IF \A si \in Range(q.groups[i]) : in_sourceinfos(state, si.pkgname)
    THEN [q EXCEPT !.i = i, !.phase = "makedepends", !.pc = "closure",
                   !.todo = makedepends_todo(state,
                                {si.pkgname : si \in Range(q.groups[i])}),
                   !.done = {}, !.rounds = 0]
    ELSE [q EXCEPT !.i = i, !.pc = "raised"]

\* The handler keeps the event loop until it returns or raises.
release(q, holder) == IF q.pc \in {"done", "raised"} THEN "none" ELSE holder

buildqueue2_start ==
    /\ on_loop = "none"
    /\ queue.on
    /\ queue.pc = "idle"
    /\ check_is_ready(state, no_middleware)
    /\ \E r \in {get_srcinfos_to_build(state)} :
          \E q \in {[queue EXCEPT !.srcinfos = r[1], !.marked_new = r[2],
                                  !.groups = to_build(r[1])]} :
              queue' = IF q.groups = <<>> THEN [q EXCEPT !.pc = "restrict"]
                       ELSE first_closure(q, 1)
    /\ on_loop' = release(queue', handler_holds("buildqueue2"))
    /\ UNCHANGED <<loop_pc, update_event, cur, orphans, upstream, cache, state,
                   bq, client, no_middleware, hist, clock, pure>>

\* get_transitive_depends_and_resolve: one round of while todo
closure_step ==
    /\ queue.on
    /\ queue.pc = "closure"
    /\ \E popped \in queue.todo :
          LET name == resolve_package(state, popped)
              todo == queue.todo \ {popped}
          IN queue' =
                IF already_done(name, queue.done)
                THEN [queue EXCEPT !.todo = todo, !.rounds = @ + 1]
                ELSE [queue EXCEPT !.done = @ \cup {name}, !.rounds = @ + 1,
                                   !.todo = todo_update(state, name, todo)]
    /\ UNCHANGED <<loop_pc, update_event, cur, orphans, upstream, cache, state,
                   on_loop, bq, client, no_middleware, hist, clock, pure>>

\* get_transitive_depends_and_resolve returns done: the closure of
\* base-devel and base follows the first one; after it the entry is appended
\* and the loop goes on to the next build key.
closure_return ==
    /\ queue.on
    /\ queue.pc = "closure"
    /\ queue.todo = {}
    /\ queue' =
          IF queue.phase = "makedepends"
          THEN [queue EXCEPT !.first = queue.done, !.phase = "base",
                             !.todo = {"base-devel", "base"}, !.done = {},
                             !.rounds = 0]
          ELSE LET e == new_entry(state, queue.groups[queue.i], queue.marked_new,
                                  queue.first \cup queue.done)
                   q == [queue EXCEPT !.entries = Append(@, e), !.first = {},
                                      !.done = {}, !.rounds = 0, !.phase = "-"]
               IN IF queue.i < Len(queue.groups) THEN first_closure(q, queue.i + 1)
                  ELSE [q EXCEPT !.pc = "restrict"]
    /\ on_loop' = release(queue', on_loop)
    /\ UNCHANGED <<loop_pc, update_event, cur, orphans, upstream, cache, state,
                   bq, client, no_middleware, hist, clock, pure>>

\* The deps are limited to the packages of the queue, the results are made
\* and returned.
buildqueue2_return ==
    /\ queue.on
    /\ queue.pc = "restrict"
    /\ LET entries == restrict(queue.entries)
       IN queue' =
             IF \A e \in Range(entries) :
                    \A name \in e.makedepends \cup e.packages :
                        in_repo_mapping(queue.srcinfos, name)
             THEN [queue EXCEPT
                      !.pc = "done",
                      !.entries = entries,
                      !.results = [i \in 1..Len(entries) |->
                                      queue_entry(queue.srcinfos, entries[i])]]
             ELSE [queue EXCEPT !.pc = "raised", !.entries = entries]
    /\ on_loop' = "none"
    /\ UNCHANGED <<loop_pc, update_event, cur, orphans, upstream, cache, state,
                   bq, client, no_middleware, hist, clock, pure>>

\* ---------------------------------------------------- a page endpoint
\* GET of a page with the If-None-Match header inm.
page_get(inm) ==
    /\ on_loop = "none"
    /\ LET st == IF check_is_ready(state, no_middleware)
                 THEN etag_status(state, inm) ELSE 503
       IN client' = [etag |-> IF st = 200 THEN etag_header(state.etag) ELSE client.etag,
                     stale |-> IF st = 200 THEN FALSE ELSE client.stale,
                     status |-> st,
                     through |-> check_is_ready(state, no_middleware),
                     inm_current |-> (inm = etag_header(state.etag)),
                     inm_fresh |-> (inm # NoHeader /\ inm = client.etag /\ ~client.stale)]
    /\ UNCHANGED <<loop_pc, update_event, cur, orphans, upstream, cache, state,
                   on_loop, bq, no_middleware, hist, others>>

\* ---------------------------------------------------------------- time
\* SLEEP seconds pass; no sleep goes on beyond its end.
tick ==
    /\ on_loop = "none"
    /\ clock.on
    /\ clock.timer > 0
    /\ loop_pc = "sleep" => clock.sleep > 0
    /\ clock' = [clock EXCEPT !.level = leak(@, SLEEP),
                              !.sleep = Max(@ - SLEEP, 0),
                              !.timer = Max(@ - SLEEP, 0),
                              !.starts = Aged(@, SLEEP)]
    /\ UNCHANGED <<loop_pc, update_event, cur, orphans, upstream, cache, state,
                   on_loop, bq, client, no_middleware, hist, queue, pure>>

\* ----------------------------------------------------------------- Next
\* update_loop and trigger_loop
LoopNext ==
    \/ start_cycle
    \/ gather_return
    \/ wait_for_update
    \/ sleep_done
    \/ trigger_loop
    \/ do_trigger_update

\* the tasks of a cycle, with servers that answer every request
TaskNext ==
    \/ \E t \in TASKS : head_done(t)
    \/ \E t \in TASKS : get_done(t)

\* requests that raise, and what the tasks left behind do
FailNext ==
    \/ \E t \in TASKS : task_raise(t)
    \/ gather_raise
    \/ \E p \in Positions : orphan_head_done(p)
    \/ \E p \in Positions : orphan_get_done(p)
    \/ \E p \in Positions : orphan_raise(p)

EnvNext == \E u \in URLS : upstream_change(u)

BqNext ==
    \/ bq_enter
    \/ bq_entries
    \/ bq_return

ClientNext == \E inm \in {client.etag, Nope, NoHeader} : page_get(inm)

\* The refresh loop and buildqueue2 while every request is answered.
Next == LoopNext \/ TaskNext \/ EnvNext \/ BqNext

Spec == Init /\ [][Next]_vars

\* The refresh loop when requests may raise, the servers keeping the
\* documents they start with.
NextFail == LoopNext \/ TaskNext \/ FailNext

SpecFail == InitFail /\ [][NextFail]_vars

\* buildqueue2 on the snapshots.
NextQueue ==
    \/ buildqueue2_start
    \/ closure_step
    \/ closure_return
    \/ buildqueue2_return

SpecQueue == InitQueue /\ [][NextQueue]_vars

\* The refresh loop in time.
NextRate == LoopNext \/ TaskNext \/ tick

SpecRate == InitRate /\ [][NextRate]_vars

\* The refresh loop and a client of the page endpoints.
NextWeb == LoopNext \/ TaskNext \/ EnvNext \/ ClientNext

SpecWeb == Init /\ [][NextWeb]_vars

\* ------------------------------------------------ update_sourceinfos
MaxDocs == 3    \* entries of the documents of SRCINFO_URLS

LOADED == {"foo", "bar"}

\* An entry of a document: the pkgbase of its srcinfo and the pkgnames the
\* srcinfo declares.
DocChoices == [pkgbase : LOADED, names : SUBSET LOADED]

\* json_obj.items() of the urls one after the other.
DocsChoices == UNION {[1..n -> DocChoices] : n \in 0..MaxDocs}

\* SrcInfoPackage.for_srcinfo: the set of the packages of the entry at d.
for_srcinfo(docs, d) ==
    {[pkgname |-> n, pkgbase |-> docs[d].pkgbase, doc |-> d] : n \in docs[d].names}

\* docs: the entries; d: the entry the loop is at; pending: the packages of
\* that entry the inner loop has not taken yet; result, pkgextra: the locals
\* of that name, result in the order of its keys; warnings: the duplicates
\* logged.
LoaderInit(docs) ==
    [on |-> TRUE, pc |-> "idle", docs |-> docs, d |-> 0, pending |-> {},
     result |-> <<>>, pkgextra |-> {}, warnings |-> 0]

InitLoader ==
    \E docs \in DocsChoices :
        StartWith(AppStateInit, TRUE, ClockOff, QueueOff, LoaderInit(docs), VersOff)

\* pkg.pkgname in result
in_result(result, pkg) ==
    \E i \in 1..Len(result) : result[i].pkgname = pkg.pkgname

\* A store that keeps the package the name already has.
result_setdefault(result, pkg) ==
    IF in_result(result, pkg) THEN result ELSE Append(result, pkg)

\* result[pkg.pkgname] = pkg: the key keeps its place in the dict
result_store(result, pkg) ==
    IF in_result(result, pkg)
    THEN [i \in 1..Len(result) |->
             IF result[i].pkgname = pkg.pkgname THEN pkg ELSE result[i]]
    ELSE Append(result, pkg)

\* check_needs_update returned True: result and pkgextra are empty.
load_start ==
    /\ loader.on
    /\ loader.pc = "idle"
    /\ loader' = [loader EXCEPT !.pc = "loop"]
    /\ UNCHANGED <<loop_pc, update_event, cur, orphans, upstream, cache, state,
                   on_loop, bq, client, no_middleware, hist, clock, queue, vers>>

\* for hash_, m in json_obj.items(): the next entry; the pkgbase of the
\* entry before it, if it had a package, has got its pkgextra.
load_document ==
    /\ loader.on
    /\ loader.pc = "loop"
    /\ loader.pending = {}
    /\ loader.d < Len(loader.docs)
    /\ loader' = [loader EXCEPT !.d = @ + 1,
                                !.pending = for_srcinfo(loader.docs, loader.d + 1)]
    /\ UNCHANGED <<loop_pc, update_event, cur, orphans, upstream, cache, state,
                   on_loop, bq, client, no_middleware, hist, clock, queue, vers>>

\* for pkg in SrcInfoPackage.for_srcinfo(...): a set, taken in any order
load_package ==
    /\ loader.on
    /\ loader.pc = "loop"
    /\ \E pkg \in loader.pending :
          loader' = [loader EXCEPT
                        !.pending = @ \ {pkg},
                        !.warnings = IF in_result(loader.result, pkg) THEN @ + 1 ELSE @,
                        !.result = result_store(@, pkg),
                        !.pkgextra = @ \cup {pkg.pkgbase}]
    /\ UNCHANGED <<loop_pc, update_event, cur, orphans, upstream, cache, state,
                   on_loop, bq, client, no_middleware, hist, clock, queue, vers>>

\* state.pkgextra = pkgextra; state.sourceinfos = result
load_publish ==
    /\ loader.on
    /\ loader.pc = "loop"
    /\ loader.pending = {}
    /\ loader.d = Len(loader.docs)
    /\ state' = set_sourceinfos(set_pkgextra(state, loader.pkgextra), loader.result)
    /\ loader' = [loader EXCEPT !.pc = "pypi"]
    /\ UNCHANGED <<loop_pc, update_event, cur, orphans, upstream, cache,
                   on_loop, bq, client, no_middleware, hist, clock, queue, vers>>

\* await update_pypi_versions(pkgextra): it returns at once or assigns the
\* external infos.
load_return ==
    /\ loader.on
    /\ loader.pc = "pypi"
    /\ \E fetched \in BOOLEAN :
          state' = IF fetched THEN set_ext_infos(state, 1) ELSE state
    /\ loader' = [loader EXCEPT !.pc = "returned"]
    /\ UNCHANGED <<loop_pc, update_event, cur, orphans, upstream, cache,
                   on_loop, bq, client, no_middleware, hist, clock, queue, vers>>

NextLoader ==
    \/ load_start
    \/ load_document
    \/ load_package
    \/ load_publish
    \/ load_return

SpecLoader == InitLoader /\ [][NextLoader]_vars

\* -------------------------------------------------------- fill_rdepends
MaxDeclared == 3    \* names the packages depend on and provide, together

DepType == {"NORMAL", "MAKE", "OPTIONAL", "CHECK"}

\* The names the packages depend on and provide: those of two packages and
\* one that is no package.
DECLARED == {"foo", "bar", "virt"}

\* What the packages declare: the package (its place in UNITS), the list,
\* the name.
Declarations == (1..Len(UNITS)) \X (DepType \cup {"PROVIDES"}) \X DECLARED

\* The keys of a list of the package at place i.
declared(D, i, list) == {n \in DECLARED : <<i, list, n>> \in D}

\* Package.__init__: the keys of depends, makedepends, optdepends,
\* checkdepends and provides, and no rdepends.
BinaryPackage(D, i) ==
    [name |-> UNITS[i], depends |-> declared(D, i, "NORMAL"),
     makedepends |-> declared(D, i, "MAKE"),
     optdepends |-> declared(D, i, "OPTIONAL"),
     checkdepends |-> declared(D, i, "CHECK"),
     provides |-> declared(D, i, "PROVIDES"), rdepends |-> <<>>]

\* The locals of fill_rdepends.  packages: those of sources.values(), a
\* package being the object at its place; deps: the index by name.
RdependsInit(D) ==
    [on |-> TRUE, pc |-> "deps",
     packages |-> [i \in 1..Len(UNITS) |-> BinaryPackage(D, i)], deps |-> <<>>]

\* The subsets of S of k elements at most.
RECURSIVE UpTo(_, _)
UpTo(S, k) ==
    IF k = 0 THEN {{}}
    ELSE LET fewer == UpTo(S, k - 1)
         IN fewer \cup {T \cup {x} : T \in fewer, x \in S}

InitRdepends ==
    \E D \in UpTo(Declarations, MaxDeclared) :
        StartWith(AppStateInit, TRUE, ClockOff, QueueOff, RdependsInit(D), VersOff)

\* The keys of the list of p that the first loop reads for the type t.
depends_of(p, t) ==
    IF t = "NORMAL" THEN p.depends
    ELSE IF t = "MAKE" THEN p.makedepends
    ELSE IF t = "OPTIONAL" THEN p.optdepends
    ELSE p.checkdepends

\* deps.setdefault(n, dict()).setdefault(p, set()).add(t) for every package
\* p, type t and key n of its list: deps[n][p] holds the types with which p
\* depends on n.
deps_of(packages) ==
    LET names == UNION {depends_of(packages[q], t) :
                           q \in DOMAIN packages, t \in DepType}
        users(n) == {q \in DOMAIN packages :
                        \E t \in DepType : n \in depends_of(packages[q], t)}
    IN [n \in names |->
           [q \in users(n) |->
               {t \in DepType : n \in depends_of(packages[q], t)}]]

\* deps.get(n, dict())
deps_get(deps, n) == IF n \in DOMAIN deps THEN deps[n] ELSE <<>>

\* An index read under the name of the package only.
rdeps_by_name(deps, p) == {deps_get(deps, p.name)}

\* rdeps: deps.get(p.name) and deps.get(prov) for every prov in p.provides
rdeps(deps, p) == {deps_get(deps, n) : n \in {p.name} \cup p.provides}

\* merged.setdefault(rp, set()).update(rs) for every rd of rdeps and every
\* item of rd
merged(rds) ==
    LET keys == UNION {DOMAIN rd : rd \in rds}
    IN [rp \in keys |-> UNION {rd[rp] : rd \in {r \in rds : rp \in DOMAIN r}}]

\* fill_rdepends, its first loop: the index is built.
fill_deps ==
    /\ loader.on
    /\ loader.pc = "deps"
    /\ loader' = [loader EXCEPT !.pc = "merge", !.deps = deps_of(loader.packages)]
    /\ UNCHANGED <<loop_pc, update_event, cur, orphans, upstream, cache, state,
                   on_loop, bq, client, no_middleware, hist, clock, queue, vers>>

\* fill_rdepends, its second loop: p.rdepends = merged for every package.
fill_merge ==
    /\ loader.on
    /\ loader.pc = "merge"
    /\ loader' =
          [loader EXCEPT
              !.pc = "filled",
              !.packages =
                  [i \in DOMAIN loader.packages |->
                      [loader.packages[i] EXCEPT
                          !.rdepends = merged(rdeps(loader.deps, loader.packages[i]))]]]
    /\ UNCHANGED <<loop_pc, update_event, cur, orphans, upstream, cache, state,
                   on_loop, bq, client, no_middleware, hist, clock, queue, vers>>

NextRdepends == fill_deps \/ fill_merge

SpecRdepends == InitRdepends /\ [][NextRdepends]_vars

\* --------------------------------------------------------------- vercmp
MaxChars == 5     \* characters of two version strings, together
MaxRelLen == 3    \* characters of a version string with releases

\* The characters of the version strings: digits, a letter, a separator,
\* the release separator, the epoch separator.
ALPHABET == {"1", "2", "a", ".", "-", "~"}

\* Those of versions of digits with releases.
RELEASED == {"1", "2", "-"}

Strings(S, n) == [1..n -> S]

\* a, b, c: the strings; xy: vercmp(x, y) once compared; version: the
\* version of the source whose packages have the versions a, b and c.
VersInit(a, b, c) ==
    [on |-> TRUE, pc |-> "idle", a |-> a, b |-> b, c |-> c,
     ab |-> 0, ba |-> 0, aa |-> 0, bc |-> 0, ac |-> 0, version |-> None]

StartVers(a, b, c) ==
    StartWith(AppStateInit, TRUE, ClockOff, QueueOff, LoaderOff, VersInit(a, b, c))

\* Two strings of any characters.
InitVercmp ==
    \E m \in 0..MaxChars, n \in 0..MaxChars :
        /\ m + n <= MaxChars
        /\ \E a \in Strings(ALPHABET, m), b \in Strings(ALPHABET, n) :
              StartVers(a, b, <<>>)

\* Three versions of digits, with a release or without.
InitOrder ==
    \E l \in 0..MaxRelLen, m \in 0..MaxRelLen, n \in 0..MaxRelLen :
        \E a \in Strings(RELEASED, l), b \in Strings(RELEASED, m),
           c \in Strings(RELEASED, n) :
            StartVers(a, b, c)

\* test_ver: the strings are compared, both ways.
compare ==
    /\ vers.on
    /\ vers.pc = "idle"
    /\ vers' = [vers EXCEPT !.pc = "done",
                            !.ab = vercmp(vers.a, vers.b),
                            !.ba = vercmp(vers.b, vers.a),
                            !.aa = vercmp(vers.a, vers.a),
                            !.bc = vercmp(vers.b, vers.c),
                            !.ac = vercmp(vers.a, vers.c)]
    /\ UNCHANGED <<loop_pc, update_event, cur, orphans, upstream, cache, state,
                   on_loop, bq, client, no_middleware, hist, clock, queue, loader>>

NextVercmp == compare

SpecVercmp == InitVercmp /\ [][NextVercmp]_vars

SpecOrder == InitOrder /\ [][NextVercmp]_vars

\* A source of the packages foo, bar and baz with the versions a, b and c.
SourceOf(a, b, c) ==
    [name |-> "foo",
     packages |-> <<[name |-> "foo", version |-> a],
                    [name |-> "bar", version |-> b],
                    [name |-> "baz", version |-> c]>>]

\* Source.version is read: it sorts the set of the versions, which is
\* iterated in one order or another.
get_version ==
    /\ vers.on
    /\ vers.pc = "idle"
    /\ \E v \in Source_versions(SourceOf(vers.a, vers.b, vers.c)) :
          vers' = [vers EXCEPT !.pc = "read", !.version = v]
    /\ UNCHANGED <<loop_pc, update_event, cur, orphans, upstream, cache, state,
                   on_loop, bq, client, no_middleware, hist, clock, queue, loader>>

NextSource == get_version

\* A source of three packages whose versions have a release or none.
SpecSource == InitOrder /\ [][NextSource]_vars

MaxCodePoints == 4    \* characters of two strings of any kind, together

\* Two strings of any characters, those of NonDecimals among them.
InitAnyString ==
    \E m \in 0..MaxCodePoints, n \in 0..MaxCodePoints :
        /\ m + n <= MaxCodePoints
        /\ \E a \in Strings(ALPHABET \cup NonDecimals, m),
              b \in Strings(ALPHABET \cup NonDecimals, n) :
              StartVers(a, b, <<>>)

SpecAnyString == InitAnyString /\ [][NextVercmp]_vars

\* ------------------------------------------------------------ properties
HandlerCanRun == on_loop = "none" /\ check_is_ready(state, no_middleware)

\* update_source of the running cycle has assigned state.sources.
SourcesApplied == cur["update_source"].st = "returned"

\* update_source of the running cycle is about to assign state.sources.
SourcesPending == cur["update_source"].st = "get"

\* update_sourceinfos of the running cycle has assigned state.sourceinfos.
SourceinfosApplied ==
    /\ cur["update_sourceinfos"].url = "PYPI_URLS"
    /\ cur["update_sourceinfos"].st # "raised"

SourceinfosPending == cur["update_sourceinfos"] = [st |-> "get", url |-> "SRCINFO_URLS"]

\* C1: whenever a request handler can run, it is not the case that one of
\* state.sources and state.sourceinfos was assigned by the running refresh
\* cycle while the assignment of the other by the same cycle is still to come.
C1_NoHalfUpdatedSnapshot ==
    HandlerCanRun =>
        /\ ~(SourcesApplied /\ SourceinfosPending)
        /\ ~(SourceinfosApplied /\ SourcesPending)

\* C2: after a refresh cycle whose gather raised, no setter of AppState has
\* been called since that cycle started: sources, sourceinfos, pkgextra,
\* ext_infos, build_status, vulnerabilities and etag are those of its start.
C2_FailedCycleLeavesStateAlone == hist.raised => ~hist.changed

\* A request for the documents of u is under way.
Fetching(u) ==
    \/ orphans[[st |-> "get", url |-> u]] > 0
    \/ cur[TaskOf(u)] = [st |-> "get", url |-> u]

\* C3: a refresh cycle fetches again what a failed cycle could not fetch:
\* when a task returns without fetching a url list, the state holds the
\* documents the cached headers of that list belong to (or their fetch is
\* still under way).
C3_RetryFetchesAgain ==
    \A t \in TASKS :
        cur[t].st = "skipped" =>
            \/ Held(state, cur[t].url) = cache[cur[t].url]
            \/ Fetching(cur[t].url)

\* C4: the pending refresh is a flag: the event is set exactly when
\* queue_update() was called since wait_for_update() last consumed it, however
\* many calls there were, and one wait_for_update() consumes them all.
C4_TriggersCollapse == update_event <=> hist.burst > 0

C4_Witness == hist.consumed = 2 /\ loop_pc = "sleep" /\ ~update_event

\* C5: while buildqueue2 runs it holds the event loop, and what it reads of
\* state.sources and state.sourceinfos later in the invocation is what it
\* read first; the step that ends the invocation is always possible.
C5_BuildQueueSeesOneState ==
    /\ bq.pc # "idle" => on_loop = "buildqueue2"
    /\ bq.pc = "entries" => bq.same /\ ENABLED bq_return

C5_Witness ==
    /\ bq.pc = "entries"
    /\ SourcesApplied
    /\ SourceinfosPending

\* C7: whenever the published data change the etag is replaced by a token
\* that was never the etag before (tokens are numbered in the order drawn),
\* and the etag never goes back to an earlier token.
C7_EtagFollowsPublication ==
    [][/\ Data(state)' # Data(state) => state'.etag > state.etag
       /\ state'.etag >= state.etag]_vars

C7_Witness ==
    /\ Data(state) = <<1, 1, 1, 1, 1, 1>>
    /\ state.etag > AppStateInit.etag

C6_RateLimited == clock.on => Len(clock.starts) <= UPDATE_MIN_RATE

C6_Witness ==
    /\ clock.on
    /\ loop_pc = "limit"
    /\ update_event
    /\ ~has_capacity(clock)
    /\ Len(clock.starts) = UPDATE_MIN_RATE

\* The entry at i needs a package that the entry at j produces.
NeedsEntry(entries, i, j) ==
    i # j /\ entries[i].makedepends \cap entries[j].packages # {}

\* The entries reached from the entry at i along NeedsEntry in at most n steps.
RECURSIVE Needed(_, _, _)
Needed(entries, i, n) ==
    IF n = 0 THEN {}
    ELSE LET direct == {j \in 1..Len(entries) : NeedsEntry(entries, i, j)}
         IN direct \cup UNION {Needed(entries, j, n - 1) : j \in direct}

Acyclic(entries) ==
    \A i \in 1..Len(entries) : i \notin Needed(entries, i, Len(entries))

QueueReturned == queue.on /\ queue.pc = "done"

\* results[i] is made of entries[i]
SameOrder ==
    /\ Len(queue.results) = Len(queue.entries)
    /\ \A i \in 1..Len(queue.results) :
          build_key(queue.results[i]) = build_key(queue.entries[i])

\* C9: in the list buildqueue2 returns for a snapshot without a dependency
\* cycle among its build units, a unit that needs a package produced by
\* another unit of the list comes after that unit.
C9_TopologicalOrder ==
    QueueReturned /\ Acyclic(queue.entries) =>
        /\ SameOrder
        /\ \A i, j \in 1..Len(queue.entries) :
              NeedsEntry(queue.entries, i, j) => j < i

\* The recipe is not built yet: its package is not in the repositories or
\* is there in an older version.
NeedsBuild(s, si) ==
    \/ si.pkgname \notin repo_names(s)
    \/ \E p \in Range(all_packages_from(s.sources, 1, FALSE)) :
          /\ p.name = si.pkgname
          /\ version_is_newer_than(build_version(si), p.version)

\* The list has one entry for every build unit that is to be built, and no
\* other entry.
EachUnitOnce ==
    LET units == {build_key(si) : si \in {x \in Range(state.sourceinfos) :
                                              NeedsBuild(state, x)}}
    IN /\ Len(queue.results) = Cardinality(units)
       /\ \A u \in units :
             Cardinality({i \in 1..Len(queue.results) :
                             build_key(queue.results[i]) = u}) = 1

\* The names a closure can meet.
AllNames(s) ==
    {"base-devel", "base"}
    \cup UNION {{si.pkgname} \cup si.depends \cup si.makedepends :
                   si \in Range(s.sourceinfos)}

RECURSIVE TotalDepends(_)
TotalDepends(sourceinfos) ==
    IF sourceinfos = <<>> THEN 0
    ELSE Cardinality(Head(sourceinfos).depends) + TotalDepends(Tail(sourceinfos))

\* Every round takes a name from todo, and todo gets the names it starts
\* with and, once for every name, the depends of that name.
RoundsBound(s) == Cardinality(AllNames(s)) + TotalDepends(s.sourceinfos)

\* The guard of one of the steps of buildqueue2 holds.
CanStep ==
    \/ queue.pc = "idle" /\ on_loop = "none" /\ check_is_ready(state, no_middleware)
    \/ queue.pc = "closure"
    \/ queue.pc = "restrict"

\* C10: buildqueue2 ends and raises nothing, also for a snapshot in which
\* two or three build units depend on each other: the rounds of a closure
\* stay within what the names and their depends allow, a step is possible
\* until the handler has returned, and the list it returns has every build
\* unit that is to be built exactly once.
C10_CycleTolerance ==
    /\ queue.on /\ queue.pc = "closure" => queue.rounds <= RoundsBound(state)
    /\ queue.on /\ ~QueueReturned => CanStep
    /\ QueueReturned => EachUnitOnce

\* Three units that depend on each other in a ring, all returned.
C10_Witness ==
    /\ QueueReturned
    /\ Len(queue.results) = 3
    /\ Len(state.sourceinfos) = 3
    /\ \A i \in 1..3 :
          state.sourceinfos[i].depends = {state.sourceinfos[(i % 3) + 1].pkgname}

\* ------------------------------------------------- the scenario of C11
\* foo 1.0-1 is in the repository msys, its recipe is at 1.1-1 and has bar
\* in its makedepends; bar has a recipe and no package.
ScenarioSnapshot ==
    Snapshot(DepsOf(<<{}, {"bar"}>>, NoDeps, NoDeps),
             [n \in Range(UNITS) |->
                 IF n = "foo" THEN "older" ELSE IF n = "bar" THEN "absent"
                 ELSE "unknown"],
             "plain")

InScenario ==
    /\ state.sources = ScenarioSnapshot.sources
    /\ state.sourceinfos = ScenarioSnapshot.sourceinfos

\* The entries of the returned list that produce the package name.
Producing(name) ==
    {i \in 1..Len(queue.results) :
        \E repo \in DOMAIN queue.results[i].builds :
            name \in Range(queue.results[i].builds[repo].packages)}

\* C11: for the snapshot of the scenario buildqueue2 returns two build units,
\* one that produces foo and one that produces bar, and every build of the
\* unit of foo lists bar in its depends under the repository of bar.
C11_Scenario ==
    QueueReturned /\ InScenario =>
        /\ Len(queue.results) = 2
        /\ Cardinality(Producing("foo")) = 1
        /\ Cardinality(Producing("bar")) = 1
        /\ Producing("foo") # Producing("bar")
        /\ \A i \in Producing("foo") :
              \A repo \in DOMAIN queue.results[i].builds :
                  /\ REPO("bar") \in DOMAIN queue.results[i].builds[repo].depends
                  /\ "bar" \in Range(queue.results[i].builds[repo].depends[REPO("bar")])

C11_Witness ==
    /\ QueueReturned
    /\ InScenario
    /\ Producing("foo") # {}
    /\ queue.results[CHOOSE i \in Producing("foo") : TRUE].version_repo = Str_1_0_1
    /\ queue.results[CHOOSE i \in Producing("foo") : TRUE].version = Str_1_1_1

\* --------------------------------------------------- the closure of C12
\* The names a breadth-first search reaches: from the names of the frontier
\* along the depends of their recipes, each name taken as the package it
\* resolves to.
RECURSIVE Reachable(_, _, _)
Reachable(s, frontier, seen) ==
    IF frontier = {} THEN seen
    ELSE LET found == seen \cup frontier
             next == UNION {{resolve_package(s, d) : d \in sourceinfo(s, n).depends} :
                               n \in {m \in frontier : in_sourceinfos(s, m)}}
         IN Reachable(s, next \ found, found)

\* The names the closure computed at the moment starts from.
Seeds ==
    IF queue.phase = "makedepends"
    THEN UNION {si.depends \cup si.makedepends : si \in Range(queue.groups[queue.i])}
    ELSE {"base-devel", "base"}

Reference == Reachable(state, {resolve_package(state, x) : x \in Seeds}, {})

\* C12: the set get_transitive_makedepends computes for a build unit is the
\* set of the names a breadth-first search reaches from the depends and
\* makedepends of the unit's packages along the depends of the package each
\* name resolves to: the worklist never holds a name outside it, has all of
\* it when todo is empty, and gets there within the rounds the names and
\* their depends allow, also when the recipes depend on each other in a ring.
C12_ClosureIsReachability ==
    queue.on /\ queue.pc = "closure" =>
        \A reference \in {Reference} :
            /\ queue.done \subseteq reference
            /\ {resolve_package(state, x) : x \in queue.todo} \subseteq reference
            /\ queue.todo = {} => queue.done = reference
            /\ queue.rounds <= RoundsBound(state)

\* The closure of a unit whose recipes depend on each other in a ring is
\* complete: it holds the package of the unit itself and two more.
C12_Witness ==
    /\ queue.on /\ queue.pc = "closure" /\ queue.phase = "makedepends"
    /\ queue.todo = {}
    /\ Cardinality(queue.done) = 3
    /\ \E si \in Range(queue.groups[queue.i]) : si.pkgname \in queue.done

\* --------------------------------------------- the dependencies of C13
\* The packages the entry at i of the returned list produces, and the
\* dependencies it lists, over all its builds.
Produced(i) ==
    UNION {Range(queue.results[i].builds[repo].packages) :
              repo \in DOMAIN queue.results[i].builds}

Listed(i) ==
    UNION {UNION {Range(queue.results[i].builds[repo].depends[deprepo]) :
                     deprepo \in DOMAIN queue.results[i].builds[repo].depends} :
              repo \in DOMAIN queue.results[i].builds}

\* C13: every dependency an entry of the returned list names is a package
\* that some entry of the list produces, and is none of the packages the
\* entry itself produces.
C13_DependsWithinQueue ==
    QueueReturned =>
        \A i \in 1..Len(queue.results) :
            /\ Listed(i) \subseteq UNION {Produced(j) : j \in 1..Len(queue.results)}
            /\ Listed(i) \cap Produced(i) = {}

\* Two entries that name each other: the closure of each held its own
\* package, and names that are not queued (base-devel, base).
C13_Witness ==
    /\ QueueReturned
    /\ \E i, j \in 1..Len(queue.results) :
          /\ i # j
          /\ Listed(i) \cap Produced(j) # {}
          /\ Listed(j) \cap Produced(i) # {}

\* -------------------------------------------- the candidates of C14
\* The packages the entries of the returned list produce.
Queued == UNION {Produced(i) : i \in 1..Len(queue.results)}

\* The binary packages of the snapshot that have the name.
Binaries(s, name) ==
    {p \in Range(all_packages_from(s.sources, 1, FALSE)) : p.name = name}

\* C14: a package name that has a binary package in the snapshot is in the
\* returned build queue if and only if it has a recipe whose build_version
\* compares as 1 against the version of a binary package of that name; a
\* name whose recipe is at the version of the repositories or behind it is
\* not in the queue.
C14_UpdateCandidates ==
    QueueReturned =>
        \A name \in repo_names(state) :
            name \in Queued <=>
                /\ in_sourceinfos(state, name)
                /\ \E p \in Binaries(state, name) :
                      vercmp(build_version(sourceinfo(state, name)), p.version) = 1

\* One name behind its recipe and queued, one at the version of its recipe
\* and one ahead of it, neither queued.
C14_Witness ==
    /\ QueueReturned
    /\ \E a, b, c \in repo_names(state) :
          /\ a \in Queued /\ b \notin Queued /\ c \notin Queued
          /\ \A n \in {a, b, c} : in_sourceinfos(state, n)
          /\ \E p \in Binaries(state, b) :
                vercmp(build_version(sourceinfo(state, b)), p.version) = 0
          /\ \E p \in Binaries(state, c) :
                vercmp(build_version(sourceinfo(state, c)), p.version) = -1

\* ----------------------------------------- the new candidates of C15
\* get_srcinfos_to_build has returned.
Emitted == queue.on /\ queue.pc # "idle"

\* The positions of the srcinfos it emitted for names without a binary
\* package.
NewCandidates ==
    {k \in 1..Len(queue.srcinfos) : queue.srcinfos[k].pkgname \notin repo_names(state)}

\* C15 as claimed: get_srcinfos_to_build emits at most one candidate per
\* pkgbase for the names without a binary package.
C15_OnePerPkgbase ==
    Emitted =>
        \A k, l \in NewCandidates :
            queue.srcinfos[k].pkgbase = queue.srcinfos[l].pkgbase => k = l

\* C15 amended: get_srcinfos_to_build emits exactly one candidate for every
\* recipe whose pkgname has no binary package, so several for a pkgbase with
\* several such pkgnames; buildqueue2 puts the candidates of one
\* (repo_url, repo_path) into one entry of the list it returns.
C15_OnePerPkgname ==
    /\ Emitted =>
          \A si \in Range(state.sourceinfos) :
              si.pkgname \notin repo_names(state) =>
                  Cardinality({k \in NewCandidates :
                                  queue.srcinfos[k].pkgname = si.pkgname}) = 1
    /\ QueueReturned =>
          \A k, l \in NewCandidates :
              build_key(queue.srcinfos[k]) = build_key(queue.srcinfos[l]) =>
                  /\ Cardinality({i \in 1..Len(queue.results) :
                                     build_key(queue.results[i])
                                         = build_key(queue.srcinfos[k])}) = 1
                  /\ \E i \in 1..Len(queue.results) :
                        {queue.srcinfos[k].pkgname, queue.srcinfos[l].pkgname}
                            \subseteq Produced(i)

\* Two names of one pkgbase, neither with a binary package, in one entry.
C15_Witness ==
    /\ QueueReturned
    /\ \E k, l \in NewCandidates :
          /\ k # l
          /\ queue.srcinfos[k].pkgbase = queue.srcinfos[l].pkgbase
          /\ \E i \in 1..Len(queue.results) :
                Produced(i) = {queue.srcinfos[k].pkgname, queue.srcinfos[l].pkgname}

\* ------------------------------------------------ the new flag of C16
\* The names of the packages the repository repo holds.
names_in(s, repo) ==
    {p.name : p \in {x \in Range(all_packages_from(s.sources, 1, FALSE)) :
                        x.repo = repo}}

\* The names the build for repo of the entry at i produces, and the names
\* their recipes declare in replaces.
Concerned(i, repo) ==
    LET packages == Range(queue.results[i].builds[repo].packages)
    IN packages \cup UNION {sourceinfo(state, n).replaces : n \in packages}

\* C16 as claimed: the build of an entry for the repository R is marked new
\* if and only if none of the names it produces for R, and none of the names
\* these declare in replaces, is a binary package of R.
C16_NewInThatRepo ==
    QueueReturned =>
        \A i \in 1..Len(queue.results) :
            \A repo \in DOMAIN queue.results[i].builds :
                queue.results[i].builds[repo].new
                    <=> Concerned(i, repo) \cap names_in(state, repo) = {}

\* C16 amended: the build of an entry for the repository R is marked new if
\* and only if none of the names it produces for R, and none of the names
\* these declare in replaces, is a binary package of any repository of the
\* snapshot.
C16_NewInEveryRepo ==
    QueueReturned =>
        \A i \in 1..Len(queue.results) :
            \A repo \in DOMAIN queue.results[i].builds :
                queue.results[i].builds[repo].new
                    <=> Concerned(i, repo) \cap repo_names(state) = {}

\* A build marked new whose package replaces a name no repository holds,
\* next to a binary package some repository holds.
C16_Witness ==
    /\ QueueReturned
    /\ repo_names(state) # {}
    /\ \E i \in 1..Len(queue.results) :
          \E repo \in DOMAIN queue.results[i].builds :
              /\ queue.results[i].builds[repo].new
              /\ Concerned(i, repo)
                    # Range(queue.results[i].builds[repo].packages)

\* ------------------------------------------- the empty snapshot of C17
EmptySnapshot == state.sources = <<>> /\ state.sourceinfos = <<>>

\* C17: buildqueue2 raises nothing, whatever the snapshot: no lookup of
\* state.sourceinfos or repo_mapping misses its key and the handler can step
\* until it has returned; for a snapshot without sources and sourceinfos it
\* returns the empty list.
C17_NoKeyError ==
    /\ queue.on => queue.pc # "raised"
    /\ queue.on /\ ~QueueReturned => CanStep
    /\ QueueReturned /\ EmptySnapshot => queue.results = <<>>

C17_Witness == QueueReturned /\ EmptySnapshot /\ queue.results = <<>>

\* -------------------------------------------- the duplicates of C18
Published == loader.on /\ loader.pc \in {"pypi", "returned"}

\* The entries that declare the pkgname.
Declaring(name) ==
    {d \in 1..Len(loader.docs) : name \in loader.docs[d].names}

RECURSIVE Declared(_, _)
Declared(docs, d) ==
    IF d > Len(docs) THEN 0
    ELSE Cardinality(docs[d].names) + Declared(docs, d + 1)

\* C18: the index update_sourceinfos publishes holds, for every pkgname some
\* entry of the documents declares, exactly one SrcInfoPackage, the one of
\* the last entry that declares it, whatever the order in which the packages
\* of an entry are taken; every further declaration of a pkgname has been
\* logged; while the loop runs its result never holds a pkgname twice.
C18_DuplicatePkgname ==
    /\ Published =>
          /\ \A name \in LOADED :
                LET kept == {i \in 1..Len(state.sourceinfos) :
                                state.sourceinfos[i].pkgname = name}
                IN IF Declaring(name) = {} THEN kept = {}
                   ELSE /\ Cardinality(kept) = 1
                        /\ \A i \in kept :
                              /\ state.sourceinfos[i].doc \in Declaring(name)
                              /\ \A d \in Declaring(name) :
                                    d <= state.sourceinfos[i].doc
          /\ loader.warnings
                = Declared(loader.docs, 1)
                  - Cardinality({name \in LOADED : Declaring(name) # {}})
    /\ loader.on =>
          \A i, j \in 1..Len(loader.result) :
              loader.result[i].pkgname = loader.result[j].pkgname => i = j

\* A pkgname declared by two entries of different pkgbase: one is kept, one
\* warning is logged, the run has returned.
C18_Witness ==
    /\ loader.on /\ loader.pc = "returned"
    /\ loader.warnings = 1
    /\ \E name \in LOADED :
          /\ Cardinality(Declaring(name)) = 2
          /\ \E d, e \in Declaring(name) :
                loader.docs[d].pkgbase # loader.docs[e].pkgbase

\* ------------------------------------------------ the order of vercmp
Compared == vers.on /\ vers.pc = "done"

\* C19: vercmp(a, b) = -vercmp(b, a) and vercmp(a, a) = 0 for all strings a
\* and b.
C19_Antisymmetric ==
    Compared =>
        /\ vers.ab = 0 - vers.ba
        /\ vers.aa = 0
        /\ vers.ab \in {0 - 1, 0, 1}

\* A version with an epoch and a release against one with neither, one way 1
\* and the other way -1.
C19_Witness ==
    /\ Compared
    /\ vers.ab = 1 /\ vers.ba = 0 - 1
    /\ Find(vers.a, "~") > 0 /\ Find(vers.a, "-") > 0
    /\ Find(vers.b, "~") = 0 /\ Find(vers.b, "-") = 0 /\ vers.b # <<>>

\* C20: if vercmp(a, b) <= 0 and vercmp(b, c) <= 0 then vercmp(a, c) <= 0,
\* for versions of which some have a release and some have none.
C20_Transitive ==
    Compared /\ vers.ab <= 0 /\ vers.bc <= 0 => vers.ac <= 0

\* C21: vercmp returns -1, 0 or 1 for every pair of strings and never
\* raises.
C21_NeverRaises ==
    Compared => vers.ab \in {0 - 1, 0, 1} /\ vers.ba \in {0 - 1, 0, 1}

\* -------------------------------------------------- the rules of rpmvercmp
\* The tokens ps are the first tokens of qs, which has more.
ProperPrefix(ps, qs) ==
    Len(ps) < Len(qs) /\ SubSeq(qs, 1, Len(ps)) = ps

IsAlphabetic(token) == Head(token) \in Alphas

IsNumeric(token) == Head(token) \in Digits

\* The first position at which the tokens of ps and qs differ, both having
\* one there.
FirstDifference(ps, qs) ==
    CHOOSE i \in 1..Len(ps) :
        ps[i] # qs[i] /\ \A j \in 1..(i - 1) : ps[j] = qs[j]

\* What the rules say of the result ret of comparing a segment of tokens ps
\* with one of tokens qs, the two being different.
Obeys(ps, qs, ret) ==
    IF ProperPrefix(ps, qs)
    THEN ret = (IF IsAlphabetic(qs[Len(ps) + 1]) THEN 1 ELSE 0 - 1)
    ELSE IF ProperPrefix(qs, ps)
    THEN ret = (IF IsAlphabetic(ps[Len(qs) + 1]) THEN 0 - 1 ELSE 1)
    ELSE LET p == ps[FirstDifference(ps, qs)]
             q == qs[FirstDifference(ps, qs)]
         IN /\ IsNumeric(p) /\ IsNumeric(q) /\ int(p) > int(q) => ret = 1
            /\ IsNumeric(p) /\ IsNumeric(q) /\ int(p) < int(q) => ret = 0 - 1
            /\ IsNumeric(p) /\ IsAlphabetic(q) => ret = 1
            /\ IsAlphabetic(p) /\ IsNumeric(q) => ret = 0 - 1

\* C22: a segment whose tokens are the first tokens of the other's is newer
\* when the first extra token is alphabetic and older when it is numeric or
\* a run of separators; numeric tokens compare by their integer value; a
\* numeric token is newer than an alphabetic one at the same position.  The
\* segment that decides is the first of epoch, version and release (both
\* having one) whose tokens differ.
C22_AbsentTokenRule ==
    Compared =>
        LET s1 == split(vers.a)
            s2 == split(vers.b)
            e1 == parse(s1[1])
            e2 == parse(s2[1])
            v1 == parse(s1[2])
            v2 == parse(s2[2])
        IN /\ e1 # e2 => Obeys(e1, e2, vers.ab)
           /\ e1 = e2 /\ v1 # v2 => Obeys(v1, v2, vers.ab)
           /\ e1 = e2 /\ v1 = v2 /\ s1[3] # None /\ s2[3] # None
                 /\ parse(s1[3]) # parse(s2[3])
                 => Obeys(parse(s1[3]), parse(s2[3]), vers.ab)

\* 1.2 against 1.2a and the like: several tokens, then a letter on one side
\* only, and the side without it is the newer one.
C22_Witness ==
    /\ Compared
    /\ Find(vers.a, "~") = 0 /\ Find(vers.a, "-") = 0
    /\ Len(parse(vers.a)) >= 2
    /\ ProperPrefix(parse(vers.a), parse(vers.b))
    /\ IsAlphabetic(parse(vers.b)[Len(parse(vers.a)) + 1])
    /\ vers.ab = 1 /\ vers.ba = 0 - 1

\* ------------------------------------------------------- Source.version
\* C23: Source.version is the version of one of the packages of the source
\* and no package of the source has a version that vercmp reports as newer.
C23_NewestVersion ==
    vers.on /\ vers.pc = "read" =>
        /\ vers.version \in {vers.a, vers.b, vers.c}
        /\ \A w \in {vers.a, vers.b, vers.c} : vercmp(w, vers.version) # 1

\* --------------------------------------------------- resolve_package
\* A round of get_transitive_depends_and_resolve that adds a name to done.
Resolves ==
    /\ queue.on /\ queue.pc = "closure"
    /\ queue'.pc = "closure" /\ queue'.rounds = queue.rounds + 1
    /\ queue'.done # queue.done

\* The lookup on two levels: the name itself when it has a SrcInfoPackage,
\* else the package of the provides index, else the name itself.
TwoLevels(s, name) ==
    IF \E i \in 1..Len(s.sourceinfos) : s.sourceinfos[i].pkgname = name
    THEN name
    ELSE IF \E i \in 1..Len(s.sourceinfos) : name \in s.sourceinfos[i].provides
    THEN srcinfo_provides(s, name)
    ELSE name

\* The package that both provides and replaces the name comes first.
ThreeLevels(s, name) ==
    IF \E i \in 1..Len(s.sourceinfos) :
          /\ name \in s.sourceinfos[i].provides
          /\ name \in s.sourceinfos[i].replaces
          /\ srcinfo_provides(s, name) = s.sourceinfos[i].pkgname
          /\ srcinfo_replaces(s, name) = s.sourceinfos[i].pkgname
    THEN srcinfo_provides(s, name)
    ELSE TwoLevels(s, name)

\* C24 as stated: the name a round of the closure adds to done is the name
\* it took from todo when that name is the pkgname of a SrcInfoPackage, the
\* package of the provides index when it is not and the index has it, and
\* the name itself otherwise.
C24_GitTruthWins ==
    [][Resolves =>
          \E popped \in queue.todo :
              queue'.done = queue.done \cup {TwoLevels(state, popped)}]_vars

\* C24 amended: the same, except that a name which one SrcInfoPackage both
\* provides and replaces (the provides index and the replaces index naming
\* that package) resolves to that package, whether the name has a
\* SrcInfoPackage of its own or not.
C24_ReplacerFirst ==
    [][Resolves =>
          \E popped \in queue.todo :
              queue'.done = queue.done \cup {ThreeLevels(state, popped)}]_vars

\* foo depends on bar alone, bar has its own SrcInfoPackage, baz provides
\* and replaces bar: the closure of foo holds baz and not bar.
C24_Witness ==
    /\ queue.on /\ queue.pc = "closure" /\ queue.phase = "makedepends"
    /\ \E si \in Range(queue.groups[queue.i]) : si.pkgname = "foo"
    /\ in_sourceinfos(state, "bar")
    /\ sourceinfo(state, "foo").depends \cup sourceinfo(state, "foo").makedepends = {"bar"}
    /\ srcinfo_provides(state, "bar") = "baz"
    /\ srcinfo_replaces(state, "bar") = "baz"
    /\ queue.todo = {}
    /\ queue.done = {"baz"}

\* ------------------------------------------- packages without a recipe
\* The depends that the packages of the repositories with the name declare.
BinaryDepends(name) == UNION {p.depends : p \in Binaries(state, name)}

\* The names of the candidates of get_srcinfos_to_build.
Candidates == {si.pkgname : si \in Range(queue.srcinfos)}

\* C25: when a closure of get_transitive_depends_and_resolve is complete,
\* for every name in it that has no SrcInfoPackage the queued packages
\* among the depends declared by the package of the repositories with that
\* name are in the closure too.
C25_BinaryFallback ==
    queue.on /\ queue.pc = "closure" /\ queue.todo = {} =>
        \A name \in queue.done :
            ~in_sourceinfos(state, name) =>
                \A d \in BinaryDepends(name) \cap Candidates : d \in queue.done

\* -------------------------------------------------------- the rdepends
\* C26: after fill_rdepends, for all packages p and q and every type t, q is
\* a key of p.rdepends with t among its types if and only if q depends with
\* type t on the name of p or on a name that p provides.
C26_ReverseDependencies ==
    loader.on /\ loader.pc = "filled" =>
        \A p \in DOMAIN loader.packages, q \in DOMAIN loader.packages, t \in DepType :
            (/\ q \in DOMAIN loader.packages[p].rdepends
             /\ t \in loader.packages[p].rdepends[q])
            <=> \E n \in {loader.packages[p].name} \cup loader.packages[p].provides :
                   n \in depends_of(loader.packages[q], t)

\* foo provides virt; bar depends on foo and has virt as an optional
\* dependency: bar is in the rdepends of foo with both types.
C26_Witness ==
    /\ loader.on /\ loader.pc = "filled"
    /\ loader.packages[1].provides = {"virt"}
    /\ loader.packages[2].depends = {"foo"}
    /\ loader.packages[2].optdepends = {"virt"}
    /\ DOMAIN loader.packages[1].rdepends = {2}
    /\ loader.packages[1].rdepends[2] = {"NORMAL", "OPTIONAL"}

\* ------------------------------------------------------- the fair loop
\* update_loop goes on whenever what it awaits is there.
loop_step ==
    start_cycle \/ gather_return \/ gather_raise \/ wait_for_update \/ sleep_done

\* The event loop runs every coroutine that can go on, and every request
\* is answered or raises within REQUEST_TIMEOUT.
Fairness ==
    /\ WF_vars(loop_step)
    /\ \A t \in TASKS : WF_vars(head_done(t) \/ get_done(t) \/ task_raise(t))

\* The refresh loop when requests may raise, under a fair event loop.
SpecLive == InitFail /\ [][NextFail]_vars /\ Fairness

\* C27: after every queue_update() the event stays set until
\* wait_for_update() returns, whatever the tasks of the cycle raise, and
\* from the delay that follows a refresh cycle starts: a cycle starts
\* after the call, also when the call came while a cycle was running or
\* during the delay.
C27_NoTriggerLost ==
    /\ update_event ~> (loop_pc = "sleep")
    /\ (loop_pc = "sleep") ~> (loop_pc = "gather")

\* A cycle whose gather raised left a task behind, a queue_update() was
\* consumed after it and the cycle that followed is running.
C27_Witness ==
    /\ loop_pc = "gather"
    /\ hist.failures > 0
    /\ hist.consumed > 0
    /\ \E p \in Positions : orphans[p] > 0

\* ------------------------------------------------------------ readiness
\* The refresh loop when requests may raise, and a client of the page
\* endpoints, the readiness middleware installed.
NextReady == NextFail \/ ClientNext

SpecReady == InitFail /\ [][NextReady]_vars

\* C28: state.ready is false at first; it becomes true only when the gather
\* of a cycle returns, every task of the cycle having returned without an
\* exception; it never becomes false again; and while it is false the
\* middleware answers every request with 503 and passes none on to a
\* handler, that of trigger_update included.
C28_ReadinessGating ==
    /\ ~state.ready
    /\ [][/\ state.ready => state'.ready
          /\ ~state.ready /\ state'.ready =>
                /\ loop_pc = "gather" /\ loop_pc' = "wait"
                /\ \A t \in TASKS : cur[t].st \in {"returned", "skipped"}
          /\ ~no_middleware /\ ~state.ready /\ ClientNext =>
                client'.status = 503 /\ ~client'.through
          /\ ~no_middleware /\ ~state.ready => ~do_trigger_update]_vars

\* The first cycle has failed, the state is not ready and the last request
\* was answered 503.
C28_Witness ==
    /\ ~no_middleware
    /\ ~state.ready
    /\ hist.failures > 0 /\ loop_pc = "wait"
    /\ client.status = 503 /\ ~client.through

\* ------------------------------------------------- the entries and builds
\* The builds of the entry at i that list the package name.
BuildsOf(i, name) ==
    {repo \in DOMAIN queue.results[i].builds :
        name \in Range(queue.results[i].builds[repo].packages)}

\* The list has its names in the order of Python's str, each once.
StrictlySorted(l) ==
    \A k \in 1..Len(l), m \in 1..Len(l) : k < m => rank(l[k]) < rank(l[m])

\* C29: in the returned list every candidate pkgname is produced by exactly
\* one entry and nothing else is produced; the entries and the pairs
\* (repo_url, repo_path) of the candidates correspond one to one; within an
\* entry every pkgname is in the packages of exactly one build, the one of
\* the repo of its SrcInfoPackage; every packages list is sorted and has no
\* name twice.
C29_EntriesPartition ==
    QueueReturned =>
        /\ \A name \in Candidates : Cardinality(Producing(name)) = 1
        /\ \A i \in 1..Len(queue.results) : Produced(i) \subseteq Candidates
        /\ \A i \in 1..Len(queue.results), j \in 1..Len(queue.results) :
              build_key(queue.results[i]) = build_key(queue.results[j]) => i = j
        /\ {build_key(queue.results[i]) : i \in 1..Len(queue.results)}
              = {<<si.repo_url, si.repo_path>> : si \in Range(queue.srcinfos)}
        /\ \A i \in 1..Len(queue.results) :
              /\ Produced(i) =
                    {si.pkgname : si \in {c \in Range(queue.srcinfos) :
                        <<c.repo_url, c.repo_path>> = build_key(queue.results[i])}}
              /\ \A name \in Produced(i) :
                    BuildsOf(i, name) = {sourceinfo(state, name).repo}
              /\ \A repo \in DOMAIN queue.results[i].builds :
                    StrictlySorted(queue.results[i].builds[repo].packages)

\* The recipe of bar builds bar for msys and baz for mingw64 and both are
\* candidates: one entry with two builds, next to the entry of foo.
C29_Witness ==
    /\ QueueReturned
    /\ Candidates = {"foo", "bar", "baz"}
    /\ Len(queue.results) = 2
    /\ \E i \in 1..Len(queue.results) :
          /\ DOMAIN queue.results[i].builds = {"msys", "mingw64"}
          /\ queue.results[i].builds["msys"].packages = <<"bar">>
          /\ queue.results[i].builds["mingw64"].packages = <<"baz">>

\* ----------------------------------------------------------------- C30
\* The names of the entry i of the queue that its build under repo lists
\* as depends, whatever the key.
DependsOf(i, repo) ==
    UNION {Range(queue.results[i].builds[repo].depends[d]) :
              d \in DOMAIN queue.results[i].builds[repo].depends}

\* C30: in the returned queue, for every build of an entry under target
\* repo R, the keys of the depends map are among R and "msys": they are the
\* target repos, among those two, of the queued packages the entry depends
\* on, each key lists candidates of that target repo only, and no package
\* whose target repo is neither R nor "msys" is listed in the build's
\* depends.
C30_DependsRepos ==
    QueueReturned =>
        \A i \in 1..Len(queue.results) :
            \A repo \in DOMAIN queue.results[i].builds :
                LET depends == queue.results[i].builds[repo].depends
                IN /\ DOMAIN depends \subseteq {repo, "msys"}
                   /\ DOMAIN depends =
                         {sourceinfo(state, n).repo : n \in queue.entries[i].makedepends}
                            \cap {repo, "msys"}
                   /\ \A d \in DOMAIN depends :
                         \A n \in Range(depends[d]) :
                            n \in Candidates /\ sourceinfo(state, n).repo = d
                   /\ \A n \in DependsOf(i, repo) :
                         sourceinfo(state, n).repo \in {repo, "msys"}

\* bar is built for msys and its entry depends on baz, a candidate built
\* for mingw64: the msys build of bar has no "mingw64" key and leaves baz
\* out.
C30_Witness ==
    /\ QueueReturned
    /\ {"bar", "baz"} \subseteq Candidates
    /\ sourceinfo(state, "baz").repo = "mingw64"
    /\ \E i \in 1..Len(queue.results) :
          /\ "baz" \in queue.entries[i].makedepends
          /\ DOMAIN queue.results[i].builds = {"msys"}
          /\ queue.results[i].builds["msys"].packages = <<"bar">>
          /\ "mingw64" \notin DOMAIN queue.results[i].builds["msys"].depends
          /\ "baz" \notin DependsOf(i, "msys")

====
